---------------------------- MODULE Spec2Model ----------------------------
(***************************************************************************)
(* Model of arm-rs: FP-tree construction, FP-Growth frequent-itemset       *)
(* mining and AprioriGen-style association-rule generation.                *)
(*                                                                         *)
(* Items are positive integers (0 is the null / root item).  A transaction *)
(* or itemset is a sequence of items.  An FPNode is the record             *)
(* [id, item, count, children] with children a sequence of FPNodes, as in  *)
(* fptree.rs.  f64 statistics are modelled as exact rationals <<n, d>>.    *)
(***************************************************************************)
EXTENDS Integers, Sequences, FiniteSets, TLC

VARIABLES
    pc,             \* position of the driver
    fptree,         \* the FPTree under construction / being mined
    inserted,       \* history: the insert(t, c) calls made on fptree
    depth,          \* how many conditional projections led to fptree
    dataset,        \* the transactions of the input file, as read
    nread,          \* transactions of the second pass already inserted
    item_count,     \* first-pass item frequencies (count_item_frequencies)
    min_count,      \* FP-Growth threshold
    itemsets,       \* Vec<ItemSet> handed to generate_rules
    dataset_size,   \* dataset_size argument of generate_rules
    min_confidence, \* rational <<n, d>>
    min_lift,       \* <<>> (None) or <<r>> with r a rational <<n, d>>
    gi,             \* index of the itemset whose rules are being generated
    candidates,     \* candidate consequents of the current level
    output,         \* rules emitted so far for the current itemset
    tested,         \* history: consequents passed to stats for this itemset
    rules,          \* Vec<Vec<Rule>> collected so far
    itemizer,       \* the Itemizer: next_item_id, item_str_to_id, item_id_to_str
    item_counter,   \* the ItemCounter: its Vec<u32>, index 0 first
    strings_seen,   \* history: the strings passed to id_of
    lines,          \* the lines of the input file not read yet
    yielded,        \* history: the transactions TransactionReader has yielded
    arg,            \* argument of the function called last
    result          \* what the function called last returned

\* the variables of the mining core, pc left out
miningVars == <<fptree, inserted, depth, dataset, nread, item_count, min_count,
                itemsets, dataset_size, min_confidence, min_lift, gi,
                candidates, output, tested, rules>>

\* the variables of the input side
inputVars == <<itemizer, item_counter, strings_seen, lines, yielded, arg,
               result>>

vars == <<pc, fptree, inserted, depth, dataset, nread, item_count, min_count,
          itemsets, dataset_size, min_confidence, min_lift, gi, candidates,
          output, tested, rules, itemizer, item_counter, strings_seen, lines,
          yielded, arg, result>>

-----------------------------------------------------------------------------
(* Bounds of the model.                                                    *)

\* items of the datasets of Spec are 1..MaxItem
MaxItem == 3
\* number of transactions in the dataset of Spec
MaxTrans == 2
\* items of the transactions of SpecTree are 1..MaxTreeItem
MaxTreeItem == 2
\* number of FPTree.insert calls a caller makes in SpecTree
MaxInserts == 3

\* the count the driver inserts every transaction of the dataset with
InsertWeight == 1

\* items of the datasets of SpecRules are 1..MaxRuleItem
MaxRuleItem == 4
\* number of transactions in the dataset of SpecRules
MaxRuleTrans == 2
\* items of the itemset lists of SpecRulesOpen are 1..MaxOpenItem
MaxOpenItem == 3
\* largest count of an itemset in the lists of SpecRulesOpen
MaxOpenCount == 2

\* length of the item strings of SpecItemizer
MaxStrLen == 1
\* number of distinct strings passed to id_of in SpecItemizer
MaxIds == 3
\* number of ItemCounter.add calls in SpecItemizer
MaxAdds == 3

\* items of the ItemCounter of SpecCounter are 0..MaxCounterItem
MaxCounterItem == 3
\* largest count held by the ItemCounter of SpecCounter
MaxCounterCount == 2
\* length of the lists sorted in SpecCounter
MaxSortLen == 3

\* lines of the input file of SpecReader
MaxLines == 2
\* comma-separated fields of one line of the input file
MaxFields == 2
\* length of the sorted vectors handed to dedupe_sorted directly
MaxDedupeLen == 3

\* the vectors handed to union in SpecSets hold items 1..MaxSetItem
MaxSetItem == 4

\* the Rules compared in SpecRuleEq hold items 1..MaxEqItem
MaxEqItem == 2

\* the ItemSets compared in SpecItemSetOrd hold items 1..MaxOrdItem
MaxOrdItem == 3

\* datasets of SpecPar: up to MaxParTrans transactions over 1..MaxParItem
MaxParItem == 3
MaxParTrans == 1

\* datasets of SpecGrowth: up to MaxGrowTrans transactions over 1..MaxGrowItem
MaxGrowItem == 3
MaxGrowTrans == 2

\* the bytes of the item strings: 'a' and 'b'
Letters == {97, 98}

Items == 1..MaxItem
TreeItems == 1..MaxTreeItem
RuleItems == 1..MaxRuleItem
OpenItems == 1..MaxOpenItem

\* the thresholds tried: --min-support and --min-confidence lie in [0, 1],
\* --min-lift is absent or at least 1
MinSupports == {<<0, 1>>, <<1, 4>>, <<1, 2>>, <<3, 4>>, <<1, 1>>}
ConfidenceLevels == {<<0, 1>>, <<2, 3>>, <<1, 1>>}
LiftLevels == {<<>>, << <<1, 1>> >>, << <<3, 2>> >>}
\* the <<min_confidence, min_lift>> pairs tried on rule generation alone:
\* no pruning, pruning by confidence, pruning by lift
RuleThresholds ==
    {<< <<0, 1>>, <<>> >>, << <<2, 3>>, <<>> >>, << <<0, 1>>, << <<3, 2>> >> >>}

-----------------------------------------------------------------------------
(* Generic helpers on sequences and maps.                                  *)

Range(s) == {s[i] : i \in 1..Len(s)}

EmptyMap == [x \in {} |-> 0]

RECURSIVE SumSeq(_)
SumSeq(s) == IF s = <<>> THEN 0 ELSE Head(s) + SumSeq(Tail(s))

RECURSIVE SeqsUpTo(_, _)
\* all sequences over S of length at most n
SeqsUpTo(S, n) ==
    IF n = 0 THEN {<<>>}
    ELSE LET shorter == SeqsUpTo(S, n - 1)
         IN  shorter \cup {Append(s, x) : s \in shorter, x \in S}

RECURSIVE DistinctSeqs(_)
\* all sequences over S in which no element occurs twice
DistinctSeqs(S) ==
    {<<>>} \cup UNION {{<<x>> \o s : s \in DistinctSeqs(S \ {x})} : x \in S}

IsPrefix(p, s) == Len(p) <= Len(s) /\ \A i \in 1..Len(p) : p[i] = s[i]

Min(a, b) == IF a < b THEN a ELSE b

-----------------------------------------------------------------------------
(* fptree.rs: FPNode and FPTree.                                           *)

\* FPNode::new
NewNode(id, item) == [id |-> id, item |-> item, count |-> 0, children |-> <<>>]

\* faulty variant: the lookup never finds the child, so a node is always pushed
ChildPositionNever(children, item) == 0

\* self.children.iter().position(|child| child.item == item); 0 models None
ChildPosition(children, item) ==
    IF \E i \in 1..Len(children) : children[i].item = item
    THEN CHOOSE i \in 1..Len(children) :
            /\ children[i].item = item
            /\ \A j \in 1..(i - 1) : children[j].item # item
    ELSE 0

\* faulty variant: a visited node is counted once per visit, whatever the count
AddCountOne(old, count) == old + 1

\* self.children[index].count += count
AddCount(old, count) == old + count

\* faulty variant: the nodes created further down get the same id again
NextChildIdSame(next_node_id, new_nodes) == next_node_id

\* next_node_id + new_nodes, the id passed down to the child's insert
NextChildId(next_node_id, new_nodes) == next_node_id + new_nodes

RECURSIVE NodeInsert(_, _, _, _)
\* FPNode::insert: the node after the insert and the number of nodes created
NodeInsert(node, transaction, count, next_node_id) ==
    IF Len(transaction) = 0
    THEN [node |-> node, new_nodes |-> 0]
    ELSE LET item == transaction[1]
             pos == ChildPosition(node.children, item)
             created == IF pos = 0 THEN 1 ELSE 0
             pushed == IF pos = 0
                       THEN Append(node.children, NewNode(next_node_id, item))
                       ELSE node.children
             index == IF pos = 0 THEN Len(pushed) ELSE pos
             counted == [pushed[index] EXCEPT !.count = AddCount(@, count)]
             rec == IF Len(transaction) > 1
                    THEN NodeInsert(counted, Tail(transaction), count,
                                    NextChildId(next_node_id, created))
                    ELSE [node |-> counted, new_nodes |-> 0]
         IN  [node |-> [node EXCEPT !.children =
                                        [pushed EXCEPT ![index] = rec.node]],
              new_nodes |-> created + rec.new_nodes]

\* FPTree::new
NewTree == [root |-> NewNode(0, 0), num_transactions |-> 0,
            item_count |-> EmptyMap, node_count |-> 1]

\* faulty variant: the tree's item counter counts transactions, not their weight
MapAddOne(m, k, c) ==
    IF k \in DOMAIN m THEN [m EXCEPT ![k] = @ + 1] ELSE m @@ (k :> 1)

\* *map.entry(k).or_insert(0) += c
MapAdd(m, k, c) ==
    IF k \in DOMAIN m THEN [m EXCEPT ![k] = @ + c] ELSE m @@ (k :> c)

RECURSIVE CountItems(_, _, _)
\* for item in transaction { *self.item_count.entry(*item).or_insert(0) += count }
CountItems(m, transaction, count) ==
    IF transaction = <<>> THEN m
    ELSE CountItems(MapAdd(m, Head(transaction), count), Tail(transaction), count)

\* FPTree::insert
TreeInsert(tree, transaction, count) ==
    LET r == NodeInsert(tree.root, transaction, count, tree.node_count)
    IN  [root |-> r.node,
         num_transactions |-> tree.num_transactions + count,
         item_count |-> CountItems(tree.item_count, transaction, count),
         node_count |-> tree.node_count + r.new_nodes]

\* get_item_count
get_item_count(item, counts) ==
    IF item \in DOMAIN counts THEN counts[item] ELSE 0

\* FPNode::is_root
is_root(node) == node.item = 0


-----------------------------------------------------------------------------
(* fptree.rs: item ordering.                                               *)

\* item_cmp: -1 is Less, 0 is Equal, 1 is Greater
item_cmp(a, b, counts) ==
    LET a_count == get_item_count(a, counts)
        b_count == get_item_count(b, counts)
    IN  IF a_count = b_count
        THEN (IF a < b THEN -1 ELSE IF a = b THEN 0 ELSE 1)
        ELSE (IF a_count < b_count THEN -1 ELSE 1)

\* the comparator sort_transaction hands to sort_by
OrderCmp(a, b, counts, order) ==
    IF order = "Increasing" THEN item_cmp(a, b, counts)
                            ELSE item_cmp(b, a, counts)

RECURSIVE InsertOrdered(_, _, _, _)
\* x placed after every element of the sorted s that does not compare Greater
InsertOrdered(x, s, counts, order) ==
    IF s = <<>> THEN <<x>>
    ELSE IF OrderCmp(x, Head(s), counts, order) = -1
         THEN <<x>> \o s
         ELSE <<Head(s)>> \o InsertOrdered(x, Tail(s), counts, order)

RECURSIVE sort_transaction(_, _, _)
\* sort_transaction: slice::sort_by is a stable sort
sort_transaction(transaction, counts, order) ==
    IF transaction = <<>> THEN <<>>
    ELSE InsertOrdered(transaction[Len(transaction)],
                       sort_transaction(SubSeq(transaction, 1, Len(transaction) - 1),
                                        counts, order),
                       counts, order)

RECURSIVE SortAscending(_)
\* Itertools::sorted / slice::sort on items: ascending by id
SortAscending(s) ==
    IF s = <<>> THEN <<>>
    ELSE LET rest == SortAscending(Tail(s))
             le == SelectSeq(rest, LAMBDA y : y <= Head(s))
             gt == SelectSeq(rest, LAMBDA y : y > Head(s))
         IN  le \o <<Head(s)>> \o gt

RECURSIVE SetToSeq(_)
\* the keys of a HashMap in some iteration order
SetToSeq(S) ==
    IF S = {} THEN <<>>
    ELSE LET x == CHOOSE y \in S : TRUE IN <<x>> \o SetToSeq(S \ {x})

-----------------------------------------------------------------------------
(* fptree.rs: parent table, item index, conditional trees.                 *)
(* A reference &FPNode is modelled by the fields read through it; the      *)
(* tables hash and compare nodes by id, as FPNode's Hash and PartialEq do. *)

RECURSIVE add_parents_to_table(_, _, _)
\* add_parents_to_table, for the children of node from index i on
add_parents_to_table(node, i, table) ==
    IF i > Len(node.children) THEN table
    ELSE LET child == node.children[i]
             parent == [id |-> node.id, item |-> node.item]
             withChild == [k \in DOMAIN table \cup {child.id} |->
                              IF k = child.id THEN parent ELSE table[k]]
         IN  add_parents_to_table(node, i + 1,
                                  add_parents_to_table(child, 1, withChild))

RECURSIVE parent_table_keys(_, _, _)
\* the walk of add_parents_to_table over the children of node from index i
\* on: the ids of the keys of the table, and whether
\* assert!(!table.contains_key(child)) held at every insert
parent_table_keys(node, i, walk) ==
    IF i > Len(node.children) THEN walk
    ELSE LET child == node.children[i]
             here == [keys |-> walk.keys \cup {child.id},
                      ok |-> walk.ok /\ child.id \notin walk.keys]
         IN  parent_table_keys(node, i + 1, parent_table_keys(child, 1, here))

\* make_parent_table
make_parent_table(tree) == add_parents_to_table(tree.root, 1, EmptyMap)

\* faulty variant: a node is indexed under the item of its parent
IndexKeyParent(node, child) == node.item

\* index.entry(child.item): the key a child of node is indexed under
IndexKey(node, child) == child.item

RECURSIVE add_nodes_to_index(_, _, _)
\* add_nodes_to_index, for the children of node from index i on
add_nodes_to_index(node, i, index) ==
    IF i > Len(node.children) THEN index
    ELSE LET child == node.children[i]
             ref == [id |-> child.id, item |-> child.item, count |-> child.count]
             withChild == [k \in DOMAIN index \cup {IndexKey(node, child)} |->
                              IF k = IndexKey(node, child)
                              THEN (IF k \in DOMAIN index THEN Append(index[k], ref)
                                                          ELSE <<ref>>)
                              ELSE index[k]]
         IN  add_nodes_to_index(node, i + 1,
                                add_nodes_to_index(child, 1, withChild))

\* make_item_index
make_item_index(tree) == add_nodes_to_index(tree.root, 1, EmptyMap)

RECURSIVE path_from_root_to(_, _)
\* path_from_root_to: the items of the ancestors of the node with this id,
\* topmost first, the root excluded
path_from_root_to(id, parent_table) ==
    IF id \in DOMAIN parent_table /\ ~is_root(parent_table[id])
    THEN Append(path_from_root_to(parent_table[id].id, parent_table),
                parent_table[id].item)
    ELSE <<>>

\* faulty variant: every conditional path is inserted with count 1
ConditionalCountOne(node) == 1

\* the count construct_conditional_tree inserts a path with: node.count
ConditionalCount(node) == node.count

\* the insert calls construct_conditional_tree makes, in order
ConditionalInserts(parent_table, item_list) ==
    [k \in 1..Len(item_list) |->
        [transaction |-> path_from_root_to(item_list[k].id, parent_table),
         count |-> ConditionalCount(item_list[k])]]

RECURSIVE InsertAll(_, _)
\* tree after the insert calls of the sequence calls
InsertAll(tree, calls) ==
    IF calls = <<>> THEN tree
    ELSE InsertAll(TreeInsert(tree, Head(calls).transaction, Head(calls).count),
                   Tail(calls))

\* construct_conditional_tree
construct_conditional_tree(parent_table, item_list) ==
    InsertAll(NewTree, ConditionalInserts(parent_table, item_list))

-----------------------------------------------------------------------------
(* fptree.rs: ItemSet and fp_growth.                                       *)

\* faulty variant: the items stay in the order of the recursion path
NewItemSetUnsorted(items, count) == [items |-> items, count |-> count]

\* ItemSet::new
NewItemSet(items, count) == [items |-> SortAscending(items), count |-> count]

\* faulty variant: the threshold test is not strict
IsFrequentAtLeast(count, threshold) == count >= threshold

\* faulty variant: the threshold is off by one
IsFrequentAboveNext(count, threshold) == count > threshold + 1

\* get_item_count(*x, fptree.item_count()) > min_count
IsFrequent(count, threshold) == count > threshold

\* the items fp_growth iterates over: frequent, in increasing frequency
FrequentItems(tree, threshold) ==
    sort_transaction(
        SetToSeq({x \in DOMAIN make_item_index(tree) :
                     IsFrequent(get_item_count(x, tree.item_count), threshold)}),
        tree.item_count, "Increasing")

RECURSIVE fp_growth(_, _, _, _)
RECURSIVE FlatMapItems(_, _, _, _, _, _)
\* the flat_map of fp_growth over items[i..], results in item order
FlatMapItems(tree, threshold, path, path_count, items, i) ==
    IF i > Len(items) THEN <<>>
    ELSE LET item == items[i]
             itemset == Append(path, item)
             new_path_count == Min(path_count,
                                   get_item_count(item, tree.item_count))
             item_index == make_item_index(tree)
             y == IF item \in DOMAIN item_index
                  THEN fp_growth(construct_conditional_tree(make_parent_table(tree),
                                                            item_index[item]),
                                 threshold, itemset, new_path_count)
                  ELSE <<>>
         IN  y \o <<NewItemSet(itemset, new_path_count)>>
               \o FlatMapItems(tree, threshold, path, path_count, items, i + 1)

\* fp_growth
fp_growth(tree, threshold, path, path_count) ==
    FlatMapItems(tree, threshold, path, path_count,
                 FrequentItems(tree, threshold), 1)

\* faulty variant: the recursive call is handed the tree of its caller
CalleeTreeSame(tree, conditional_tree) == tree

\* fp_growth(&conditional_tree, ..): the tree the recursive call works on
CalleeTree(tree, conditional_tree) == conditional_tree

\* faulty variant: the tasks push onto one shared itemset vector
TaskPathShared(path, earlier) == path \o earlier

\* let mut itemset: Vec<u32> = Vec::from(path): each task copies the path
TaskPath(path, earlier) == path

\* the closure fp_growth hands to flat_map, run for one item; earlier holds
\* the items of the tasks that ran before this one
FlatMapTask(tree, threshold, path, path_count, item, earlier) ==
    LET itemset == Append(TaskPath(path, earlier), item)
        new_path_count == Min(path_count, get_item_count(item, tree.item_count))
        item_index == make_item_index(tree)
        y == IF item \in DOMAIN item_index
             THEN fp_growth(construct_conditional_tree(make_parent_table(tree),
                                                       item_index[item]),
                            threshold, itemset, new_path_count)
             ELSE <<>>
    IN  y \o <<NewItemSet(itemset, new_path_count)>>

-----------------------------------------------------------------------------
(* f64 statistics as exact rationals <<numerator, denominator>>, with a    *)
(* positive denominator.                                                   *)

RatLess(x, y) == x[1] * y[2] < y[1] * x[2]
RatDiv(x, y) == <<x[1] * y[2], x[2] * y[1]>>
RatMul(x, y) == <<x[1] * y[1], x[2] * y[2]>>

-----------------------------------------------------------------------------
(* vec_sets.rs: set algebra on sorted vectors.                             *)

RECURSIVE intersection_size(_, _)
\* intersection_size: the walk of the two sorted vectors, counting equal heads
intersection_size(a, b) ==
    IF a = <<>> \/ b = <<>> THEN 0
    ELSE IF Head(a) < Head(b) THEN intersection_size(Tail(a), b)
    ELSE IF Head(b) < Head(a) THEN intersection_size(a, Tail(b))
    ELSE 1 + intersection_size(Tail(a), Tail(b))

RECURSIVE intersection_keep_b(_, _)
\* faulty variant: a smaller head of b is pushed
intersection_keep_b(a, b) ==
    IF a = <<>> \/ b = <<>> THEN <<>>
    ELSE IF Head(a) < Head(b) THEN intersection_keep_b(Tail(a), b)
    ELSE IF Head(b) < Head(a) THEN <<Head(b)>> \o intersection_keep_b(a, Tail(b))
    ELSE <<Head(a)>> \o intersection_keep_b(Tail(a), Tail(b))

RECURSIVE intersection(_, _)
\* intersection: the same walk, pushing equal heads
intersection(a, b) ==
    IF a = <<>> \/ b = <<>> THEN <<>>
    ELSE IF Head(a) < Head(b) THEN intersection(Tail(a), b)
    ELSE IF Head(b) < Head(a) THEN intersection(a, Tail(b))
    ELSE <<Head(a)>> \o intersection(Tail(a), Tail(b))

RECURSIVE union_keep_both(_, _)
\* faulty variant: equal heads are both pushed
union_keep_both(a, b) ==
    IF a = <<>> THEN b
    ELSE IF b = <<>> THEN a
    ELSE IF Head(a) < Head(b) THEN <<Head(a)>> \o union_keep_both(Tail(a), b)
    ELSE IF Head(b) < Head(a) THEN <<Head(b)>> \o union_keep_both(a, Tail(b))
    ELSE <<Head(a), Head(b)>> \o union_keep_both(Tail(a), Tail(b))

RECURSIVE union(_, _)
\* union: linear merge of two sorted vectors, equal heads pushed once
union(a, b) ==
    IF a = <<>> THEN b
    ELSE IF b = <<>> THEN a
    ELSE IF Head(a) < Head(b) THEN <<Head(a)>> \o union(Tail(a), b)
    ELSE IF Head(b) < Head(a) THEN <<Head(b)>> \o union(a, Tail(b))
    ELSE <<Head(a)>> \o union(Tail(a), Tail(b))

\* faulty variant: the item is not filtered out of the antecedent
split_out_item_keep(items, item) ==
    [antecedent |-> items, consequent |-> <<item>>]

\* split_out_item
split_out_item(items, item) ==
    [antecedent |-> SelectSeq(items, LAMBDA x : x # item),
     consequent |-> <<item>>]

\* split_out(a, b): a \ b, for b a subset of a
split_out(a, b) == SelectSeq(a, LAMBDA x : x \notin Range(b))

-----------------------------------------------------------------------------
(* generate_rules.rs.                                                      *)

\* create_support_lookup: collecting into the map, a later entry of the list
\* replaces an earlier one with the same items
create_support_lookup(list, size) ==
    [key \in {list[k].items : k \in 1..Len(list)} |->
        LET places == {k \in 1..Len(list) : list[k].items = key}
            last == CHOOSE k \in places : \A j \in places : j <= k
        IN  <<list[last].count, size>>]

\* stats: indexing the map with a missing key panics (ok = FALSE)
stats(support, antecedent, consequent, itemset_support) ==
    IF antecedent \notin DOMAIN itemset_support
          \/ consequent \notin DOMAIN itemset_support
    THEN [ok |-> FALSE, confidence |-> <<0, 1>>, lift |-> <<0, 1>>]
    ELSE LET a_sup == itemset_support[antecedent]
             c_sup == itemset_support[consequent]
         IN  [ok |-> TRUE,
              confidence |-> RatDiv(support, a_sup),
              lift |-> RatDiv(support, RatMul(a_sup, c_sup))]

\* faulty variant: every pair of candidates counts as sharing the prefix
prefx_match_len_all(a, b) == IF Len(a) # Len(b) THEN -1 ELSE Len(a) - 1

\* prefx_match_len; -1 models the panic on vectors of different length
prefx_match_len(a, b) ==
    IF Len(a) # Len(b) THEN -1
    ELSE IF \E i \in 1..Len(a) : a[i] # b[i]
         THEN (CHOOSE i \in 1..Len(a) :
                  a[i] # b[i] /\ \A j \in 1..(i - 1) : a[j] = b[j]) - 1
         ELSE Len(a)

\* min_lift.unwrap_or(0.0); the Option is <<>> (None) or <<value>>
unwrap_or_zero(option) == IF option = <<>> THEN <<0, 1>> ELSE option[1]

\* if confidence < min_confidence { continue; }
BelowConfidence(confidence, threshold) == RatLess(confidence, threshold)

\* faulty variant: the rule is pushed whatever its lift
LiftPassesAlways(lift, threshold) == TRUE

\* if lift >= min_lift { output.push(..) }
LiftPasses(lift, threshold) == ~RatLess(lift, threshold)

Rule(antecedent, consequent, st, support) ==
    [antecedent |-> antecedent, consequent |-> consequent,
     confidence |-> st.confidence, lift |-> st.lift, support |-> support]

\* the state of one generate_rules_for_itemset call between two levels
Generation(out, cands, seen, ok) ==
    [output |-> out, candidates |-> cands, tested |-> seen, ok |-> ok]

\* one candidate rule of either level: test it, emit it, keep its consequent
TestCandidate(g, antecedent, consequent, support, itemset_support, conf_threshold, lift_threshold) ==
    LET st == stats(support, antecedent, consequent, itemset_support)
        seen == Append(g.tested, consequent)
    IN  IF ~st.ok THEN Generation(g.output, g.candidates, seen, FALSE)
        ELSE IF BelowConfidence(st.confidence, conf_threshold)
        THEN Generation(g.output, g.candidates, seen, TRUE)
        ELSE Generation(
                 IF LiftPasses(st.lift, lift_threshold)
                 THEN Append(g.output, Rule(antecedent, consequent, st, support))
                 ELSE g.output,
                 Append(g.candidates, consequent), seen, TRUE)

RECURSIVE SeedLevel(_, _, _, _, _, _, _)
\* the first loop of generate_rules_for_itemset, from item index i on
SeedLevel(g, itemset, i, support, itemset_support, conf_threshold, lift_threshold) ==
    IF i > Len(itemset) \/ ~g.ok THEN g
    ELSE LET split == split_out_item(itemset, itemset[i])
         IN  SeedLevel(TestCandidate(g, split.antecedent, split.consequent,
                                     support, itemset_support, conf_threshold,
                                     lift_threshold),
                       itemset, i + 1, support, itemset_support,
                       conf_threshold, lift_threshold)

RECURSIVE LexLess(_, _)
\* Vec<Item> ordering: lexicographic, a proper prefix is less
LexLess(a, b) ==
    IF b = <<>> THEN FALSE
    ELSE IF a = <<>> THEN TRUE
    ELSE IF Head(a) # Head(b) THEN Head(a) < Head(b)
    ELSE LexLess(Tail(a), Tail(b))

RECURSIVE InsertLex(_, _)
InsertLex(x, s) ==
    IF s = <<>> THEN <<x>>
    ELSE IF LexLess(x, Head(s)) THEN <<x>> \o s
    ELSE <<Head(s)>> \o InsertLex(x, Tail(s))

RECURSIVE InsertLexDescending(_, _)
InsertLexDescending(x, s) ==
    IF s = <<>> THEN <<x>>
    ELSE IF LexLess(Head(s), x) THEN <<x>> \o s
    ELSE <<Head(s)>> \o InsertLexDescending(x, Tail(s))

RECURSIVE SortCandidatesDescending(_)
\* faulty variant: the next generation is sorted the wrong way round
SortCandidatesDescending(s) ==
    IF s = <<>> THEN <<>>
    ELSE InsertLexDescending(s[Len(s)],
                             SortCandidatesDescending(SubSeq(s, 1, Len(s) - 1)))

RECURSIVE SortCandidates(_)
\* candidates.sort()
SortCandidates(s) ==
    IF s = <<>> THEN <<>>
    ELSE InsertLex(s[Len(s)], SortCandidates(SubSeq(s, 1, Len(s) - 1)))

RECURSIVE ExpandPairs(_, _, _, _, _, _, _, _, _)
\* the two nested loops of one level over the pairs (i1, i2), from (i1, i2)
\* on; g.candidates collects next_gen
ExpandPairs(g, cands, i1, i2, itemset, support, itemset_support, conf_threshold, lift_threshold) ==
    IF i1 > Len(cands) \/ ~g.ok THEN g
    ELSE IF i2 > Len(cands)
    THEN ExpandPairs(g, cands, i1 + 1, i1 + 2, itemset, support,
                     itemset_support, conf_threshold, lift_threshold)
    ELSE LET c1 == cands[i1]
             c2 == cands[i2]
             m == Len(cands[1])
             matched == prefx_match_len(c1, c2)
         IN  IF matched = -1
             THEN Generation(g.output, g.candidates, g.tested, FALSE)
             ELSE IF matched # m - 1
             THEN \* break
                  ExpandPairs(g, cands, i1 + 1, i1 + 2, itemset, support,
                              itemset_support, conf_threshold, lift_threshold)
             ELSE LET consequent == union(c1, c2)
                      antecedent == split_out(itemset, consequent)
                  IN  ExpandPairs(
                          TestCandidate(g, antecedent, consequent, support,
                                        itemset_support, conf_threshold,
                                        lift_threshold),
                          cands, i1, i2 + 1, itemset, support,
                          itemset_support, conf_threshold, lift_threshold)

\* one iteration of the while loop: the pairs, then candidates = next_gen
\* and candidates.sort()
ExpandLevel(g, itemset, support, itemset_support, conf_threshold, lift_threshold) ==
    LET r == ExpandPairs(Generation(g.output, <<>>, g.tested, TRUE),
                         g.candidates, 1, 2, itemset, support,
                         itemset_support, conf_threshold, lift_threshold)
    IN  Generation(r.output, SortCandidates(r.candidates), r.tested, r.ok)

\* faulty variant: the loop runs one level further
LevelLoopCondLong(cands, k) == cands # <<>> /\ Len(cands[1]) < k

\* faulty variant: the loop stops one level early
LevelLoopCondShort(cands, k) == cands # <<>> /\ Len(cands[1]) + 2 < k

\* while !candidates.is_empty() && candidates[0].len() + 1 < k
LevelLoopCond(cands, k) == cands # <<>> /\ Len(cands[1]) + 1 < k

RECURSIVE ExpandAll(_, _, _, _, _, _)
\* the while loop of generate_rules_for_itemset
ExpandAll(g, itemset, support, itemset_support, conf_threshold, lift_threshold) ==
    IF ~g.ok \/ ~LevelLoopCond(g.candidates, Len(itemset)) THEN g
    ELSE ExpandAll(ExpandLevel(g, itemset, support, itemset_support,
                               conf_threshold, lift_threshold),
                   itemset, support, itemset_support, conf_threshold,
                   lift_threshold)

\* generate_rules_for_itemset
generate_rules_for_itemset(itemset, support, itemset_support, conf_threshold, lift_threshold) ==
    ExpandAll(SeedLevel(Generation(<<>>, <<>>, <<>>, TRUE), itemset, 1,
                        support, itemset_support, conf_threshold,
                        lift_threshold),
              itemset, support, itemset_support, conf_threshold,
              lift_threshold)

RECURSIVE GenerateFrom(_, _, _, _, _, _)
\* the map of generate_rules over the itemsets list[i..] of more than one
\* item; a panic in one task makes the whole call panic
GenerateFrom(list, i, size, itemset_support, conf_threshold, lift_threshold) ==
    IF i > Len(list) THEN [ok |-> TRUE, rules |-> <<>>]
    ELSE IF Len(list[i].items) <= 1
    THEN GenerateFrom(list, i + 1, size, itemset_support, conf_threshold,
                      lift_threshold)
    ELSE LET g == generate_rules_for_itemset(list[i].items,
                                             <<list[i].count, size>>,
                                             itemset_support, conf_threshold,
                                             lift_threshold)
             rest == GenerateFrom(list, i + 1, size, itemset_support,
                                  conf_threshold, lift_threshold)
         IN  [ok |-> g.ok /\ rest.ok, rules |-> <<g.output>> \o rest.rules]

\* generate_rules
generate_rules(list, size, conf_threshold, lift_option) ==
    GenerateFrom(list, 1, size, create_support_lookup(list, size),
                 conf_threshold, unwrap_or_zero(lift_option))

RECURSIVE naive_add_rules_for(_, _, _, _, _, _)
\* tests::naive_add_rules_for: the rules added for the partitions of items
\* that extend (antecedent, consequent)
naive_add_rules_for(items, antecedent, consequent, itemset_support, conf_threshold, lift_option) ==
    IF items = <<>>
    THEN IF antecedent = <<>> \/ consequent = <<>> THEN {}
         ELSE LET support == itemset_support[union(antecedent, consequent)]
                  st == stats(support, antecedent, consequent, itemset_support)
              IN  IF ~RatLess(st.confidence, conf_threshold)
                     /\ ~RatLess(st.lift, unwrap_or_zero(lift_option))
                  THEN {Rule(antecedent, consequent, st, support)}
                  ELSE {}
    ELSE naive_add_rules_for(Tail(items), Append(antecedent, Head(items)),
                             consequent, itemset_support, conf_threshold,
                             lift_option)
         \cup
         naive_add_rules_for(Tail(items), antecedent,
                             Append(consequent, Head(items)), itemset_support,
                             conf_threshold, lift_option)

\* tests::naive_generate_rules
naive_generate_rules(list, size, conf_threshold, lift_option) ==
    LET itemset_support == create_support_lookup(list, size)
    IN  UNION {naive_add_rules_for(list[k].items, <<>>, <<>>, itemset_support,
                                   conf_threshold, lift_option) :
               k \in {j \in 1..Len(list) : Len(list[j].items) > 1}}

-----------------------------------------------------------------------------
(* itemizer.rs, item_counter.rs.  A String is the sequence of its bytes;   *)
(* String's ordering is the lexicographic order of the bytes.  The         *)
(* ItemCounter is its Vec<u32>: the count of item id is at index id + 1    *)
(* of the sequence.                                                        *)

\* Itemizer::new
NewItemizer ==
    [next_item_id |-> 1, item_str_to_id |-> EmptyMap, item_id_to_str |-> <<>>]

\* faulty variant: no string is ever found in item_str_to_id
KnownIdNever(it, item) == FALSE

\* id_of: if let Some(id) = self.item_str_to_id.get(item)
KnownId(it, item) == item \in DOMAIN it.item_str_to_id

\* map.insert(key, value)
MapPut(m, key, value) ==
    [k \in DOMAIN m \cup {key} |-> IF k = key THEN value ELSE m[k]]

\* str_of: &self.item_id_to_str[id.as_index() - 1]
str_of(it, id) == it.item_id_to_str[id]

\* id_of: the Itemizer after the call, the Item returned, and whether the
\* two assert_eq! held
id_of(it, item) ==
    IF KnownId(it, item)
    THEN [itemizer |-> it, id |-> it.item_str_to_id[item], ok |-> TRUE]
    ELSE LET id == it.next_item_id
             after == [next_item_id |-> id + 1,
                       item_str_to_id |-> MapPut(it.item_str_to_id, item, id),
                       item_id_to_str |-> Append(it.item_id_to_str, item)]
         IN  [itemizer |-> after, id |-> id,
              ok |-> /\ Len(after.item_id_to_str) = id
                     /\ str_of(after, id) = item]

\* ItemCounter::new
NewItemCounter == <<>>

\* self.counter.resize(n, 0) when the vector is shorter than n
Resize(counter, n) ==
    IF Len(counter) < n
    THEN counter \o [k \in 1..(n - Len(counter)) |-> 0]
    ELSE counter

\* ItemCounter::add
ItemCounter_add(counter, item, count) ==
    LET grown == Resize(counter, item + 1)
    IN  [grown EXCEPT ![item + 1] = @ + count]

\* ItemCounter::get
ItemCounter_get(counter, item) ==
    IF item >= Len(counter) THEN 0 ELSE counter[item + 1]

\* ItemCounter::set
ItemCounter_set(counter, item, count) ==
    LET grown == Resize(counter, item + 1)
    IN  [grown EXCEPT ![item + 1] = count]

\* ItemCounter::take
ItemCounter_take(counter, other) == other

\* faulty variant: the strings are sorted in descending order
StrLessReversed(a, b) == LexLess(b, a)

\* String's Ord: lexicographic on the bytes
StrLess(a, b) == LexLess(a, b)

RECURSIVE InsertStr(_, _)
InsertStr(x, s) ==
    IF s = <<>> THEN <<x>>
    ELSE IF StrLess(x, Head(s)) THEN <<x>> \o s
    ELSE <<Head(s)>> \o InsertStr(x, Tail(s))

RECURSIVE SortStrings(_)
\* self.item_id_to_str.sort()
SortStrings(s) ==
    IF s = <<>> THEN <<>>
    ELSE InsertStr(s[Len(s)], SortStrings(SubSeq(s, 1, Len(s) - 1)))

\* faulty variant: the count is read under the new id
ReorderOldIdNew(str_to_id, item_str, new_id) == new_id

\* let old_id = self.item_str_to_id[item_str]
ReorderOldId(str_to_id, item_str, new_id) == str_to_id[item_str]

RECURSIVE ReorderLoop(_, _, _, _, _)
\* the loop of reorder_sorted over the sorted strings, from position index on
ReorderLoop(strs, index, str_to_id, sorted_counter, counter) ==
    IF index > Len(strs)
    THEN [item_str_to_id |-> str_to_id, sorted_counter |-> sorted_counter]
    ELSE LET new_id == index
             old_id == ReorderOldId(str_to_id, strs[index], new_id)
             count == ItemCounter_get(counter, old_id)
         IN  ReorderLoop(strs, index + 1,
                         MapPut(str_to_id, strs[index], new_id),
                         ItemCounter_set(sorted_counter, new_id, count),
                         counter)

\* reorder_sorted: the Itemizer and the ItemCounter after the call
reorder_sorted(it, counter) ==
    LET strs == SortStrings(it.item_id_to_str)
        done == ReorderLoop(strs, 1, it.item_str_to_id, NewItemCounter,
                            counter)
    IN  [itemizer |-> [next_item_id |-> it.next_item_id,
                       item_str_to_id |-> done.item_str_to_id,
                       item_id_to_str |-> strs],
         item_count |-> ItemCounter_take(counter, done.sorted_counter)]

\* faulty variant: equal counts are ordered by ascending item id
TieBreakAscending(a, b) == IF a < b THEN -1 ELSE IF a = b THEN 0 ELSE 1

\* sort_descending: return b.cmp(a)
TieBreak(a, b) == IF b < a THEN -1 ELSE IF b = a THEN 0 ELSE 1

\* the closure sort_descending hands to sort_by: -1 is Less, 1 is Greater
descending_cmp(a, b, counter) ==
    LET count_a == ItemCounter_get(counter, a)
        count_b == ItemCounter_get(counter, b)
    IN  IF count_a = count_b THEN TieBreak(a, b)
        ELSE (IF count_b < count_a THEN -1 ELSE 1)

RECURSIVE InsertDescending(_, _, _)
\* x placed after every element of the sorted s that does not compare Greater
InsertDescending(x, s, counter) ==
    IF s = <<>> THEN <<x>>
    ELSE IF descending_cmp(x, Head(s), counter) = -1 THEN <<x>> \o s
    ELSE <<Head(s)>> \o InsertDescending(x, Tail(s), counter)

RECURSIVE sort_descending(_, _)
\* ItemCounter::sort_descending: slice::sort_by is a stable sort
sort_descending(counter, v) ==
    IF v = <<>> THEN <<>>
    ELSE InsertDescending(v[Len(v)],
                          sort_descending(counter, SubSeq(v, 1, Len(v) - 1)),
                          counter)

RECURSIVE ItemsFrom(_, _, _)
\* the loop of ItemCounter::items_with_count_at_least from index i on
ItemsFrom(counter, i, min) ==
    IF i >= Len(counter) THEN <<>>
    ELSE (IF counter[i + 1] >= min THEN <<i>> ELSE <<>>)
         \o ItemsFrom(counter, i + 1, min)

\* ItemCounter::items_with_count_at_least: for i in 1..self.counter.len()
items_with_count_at_least(counter, min) ==
    ItemsFrom(counter, 1, min)

\* counter.rs, Counter<T>::get on the HashMap m
Counter_get(m, item) == IF item \in DOMAIN m THEN m[item] ELSE 0

\* counter.rs, Counter<T>::items_with_count_at_least: the keys that pass the
\* filter, in the iteration order of the HashMap
Counter_items_with_count_at_least(m, min) ==
    SetToSeq({item \in DOMAIN m : Counter_get(m, item) > min})

-----------------------------------------------------------------------------
(* transaction_reader.rs.  A line is the sequence of its bytes; the file   *)
(* is the sequence of its lines, each ended by a newline.                  *)

\* char::is_whitespace on the bytes that occur: tab, newline, CR, space
IsWhitespace(c) == c \in {9, 10, 13, 32}

RECURSIVE trim_start(_)
trim_start(s) ==
    IF s # <<>> /\ IsWhitespace(Head(s)) THEN trim_start(Tail(s)) ELSE s

RECURSIVE trim_end(_)
trim_end(s) ==
    IF s # <<>> /\ IsWhitespace(s[Len(s)])
    THEN trim_end(SubSeq(s, 1, Len(s) - 1))
    ELSE s

\* str::trim
trim(s) == trim_end(trim_start(s))

RECURSIVE SplitFrom(_, _)
\* the pieces of s between commas, cur being the piece under way
SplitFrom(s, cur) ==
    IF s = <<>> THEN <<cur>>
    ELSE IF Head(s) = 44 THEN <<cur>> \o SplitFrom(Tail(s), <<>>)
    ELSE SplitFrom(Tail(s), Append(cur, Head(s)))

\* line.split(","): the empty string gives one empty piece
split(s) == SplitFrom(s, <<>>)

RECURSIVE IdOfAll(_, _)
\* .map(|s| self.itemizer.id_of(s.trim())).collect()
IdOfAll(it, pieces) ==
    IF pieces = <<>> THEN [itemizer |-> it, ids |-> <<>>, ok |-> TRUE]
    ELSE LET first == id_of(it, trim(Head(pieces)))
             rest == IdOfAll(first.itemizer, Tail(pieces))
         IN  [itemizer |-> rest.itemizer,
              ids |-> <<first.id>> \o rest.ids,
              ok |-> first.ok /\ rest.ok]

\* faulty variant: the inner loop of dedupe_sorted advances i once
SkipOne(v, i, k) == i + 1

RECURSIVE SkipEqual(_, _, _)
\* dedupe_sorted: while i < v.len() && v[k] == v[i] { i += 1; }
SkipEqual(v, i, k) ==
    IF i < Len(v) /\ v[k + 1] = v[i + 1] THEN SkipEqual(v, i + 1, k) ELSE i

RECURSIVE DedupeLoop(_, _, _)
\* dedupe_sorted: the outer loop, then v.resize(k, Item::null())
DedupeLoop(v, i, k) ==
    IF i < Len(v)
    THEN LET w == [v EXCEPT ![k + 1] = v[i + 1]]
         IN  DedupeLoop(w, SkipEqual(w, i, k), k + 1)
    ELSE SubSeq(v, 1, k)

\* dedupe_sorted
dedupe_sorted(v) == DedupeLoop(v, 0, 0)

\* read_line on the lines left: the bytes appended and the lines left after
read_line(file) ==
    IF file = <<>> THEN [bytes |-> <<>>, rest |-> <<>>]
    ELSE [bytes |-> Head(file) \o <<10>>, rest |-> Tail(file)]

RECURSIVE NextLoop(_, _, _, _)
\* the loop of TransactionReader::next; line is not cleared between rounds
NextLoop(file, line, it, taken) ==
    LET read == read_line(file)
        whole == line \o read.bytes
        ids == IdOfAll(it, split(whole))
        splits == dedupe_sorted(SortAscending(ids.ids))
    IN  IF Len(read.bytes) = 0
        THEN [some |-> FALSE, splits |-> <<>>, rest |-> file, itemizer |-> it,
              taken |-> taken, ok |-> TRUE]
        ELSE IF ~ids.ok \/ Len(splits) > 0
        THEN [some |-> TRUE, splits |-> splits, rest |-> read.rest,
              itemizer |-> ids.itemizer, taken |-> taken + 1, ok |-> ids.ok]
        ELSE NextLoop(read.rest, whole, ids.itemizer, taken + 1)

\* TransactionReader::next
next(file, it) == NextLoop(file, <<>>, it, 0)

-----------------------------------------------------------------------------
(* fptree.rs: the orderings of ItemSet.  An Ordering is -1 (Less), 0       *)
(* (Equal) or 1 (Greater).                                                 *)

\* Ord::cmp on u32 and usize
NumCmp(a, b) == IF a < b THEN -1 ELSE IF a = b THEN 0 ELSE 1

RECURSIVE VecCmp(_, _)
\* Ord::cmp on Vec<u32>: lexicographic, a proper prefix is Less
VecCmp(a, b) ==
    IF a = <<>> /\ b = <<>> THEN 0
    ELSE IF a = <<>> THEN -1
    ELSE IF b = <<>> THEN 1
    ELSE IF Head(a) # Head(b) THEN NumCmp(Head(a), Head(b))
    ELSE VecCmp(Tail(a), Tail(b))

\* impl PartialOrd for ItemSet: partial_cmp, always Some(..)
ItemSet_partial_cmp(self, other) ==
    IF Len(other.items) # Len(self.items)
    THEN NumCmp(Len(self.items), Len(other.items))
    ELSE VecCmp(self.items, other.items)

\* #[derive(Ord)] on ItemSet: the fields are compared in declaration order,
\* items and then count
ItemSet_cmp(self, other) ==
    IF VecCmp(self.items, other.items) # 0
    THEN VecCmp(self.items, other.items)
    ELSE NumCmp(self.count, other.count)

-----------------------------------------------------------------------------
(* rule.rs: equality and hashing of Rule.                                  *)

\* impl PartialEq for Rule: the antecedents and the consequents are compared
Rule_eq(a, b) ==
    a.antecedent = b.antecedent /\ a.consequent = b.consequent

\* #[derive(Hash)] on Rule: every field is fed to the Hasher in declaration
\* order.  The hash value is a function of the data fed, and is modelled by
\* that data.
Rule_hash(r) ==
    <<r.antecedent, r.consequent, r.confidence, r.lift, r.support>>

IdleInput ==
    /\ itemizer = NewItemizer /\ item_counter = NewItemCounter
    /\ strings_seen = {}
    /\ lines = <<>> /\ yielded = <<>> /\ arg = <<>> /\ result = <<>>

-----------------------------------------------------------------------------
(* SpecTree: any sequence of FPTree.insert calls on a fresh tree, followed *)
(* by the conditional projections fp_growth makes of it.                   *)

\* the variables of the mining pipeline and of rule generation, unused here
IdleMining ==
    /\ dataset = <<>> /\ nread = 0 /\ item_count = EmptyMap

IdleRules ==
    /\ itemsets = <<>> /\ dataset_size = 0
    /\ min_confidence = <<0, 1>> /\ min_lift = <<>>
    /\ gi = 0 /\ candidates = <<>> /\ output = <<>> /\ tested = <<>>
    /\ rules = <<>>

TreeInit ==
    /\ pc = "tree"
    /\ fptree = NewTree
    /\ inserted = <<>>
    /\ depth = 0
    /\ min_count = 0
    /\ IdleMining
    /\ IdleRules
    /\ IdleInput

\* the driver's fptree.insert(&transaction, 1) of one transaction read from
\* the input: non-empty and free of duplicates, its items in any order
InsertCall ==
    /\ pc = "tree"
    /\ depth = 0
    /\ Len(inserted) < MaxInserts
    /\ \E transaction \in DistinctSeqs(TreeItems) \ {<<>>} :
          /\ fptree' = TreeInsert(fptree, transaction, InsertWeight)
          /\ inserted' = Append(inserted, [transaction |-> transaction,
                                           count |-> InsertWeight])
    /\ UNCHANGED inputVars
    /\ UNCHANGED <<pc, depth, dataset, nread, item_count, min_count, itemsets,
                   dataset_size, min_confidence, min_lift, gi, candidates,
                   output, tested, rules>>

\* one fp_growth frame builds the conditional tree of a frequent item and
\* recurses into it
Descend ==
    /\ pc = "tree"
    /\ \E item \in Range(FrequentItems(fptree, min_count)) :
          /\ fptree' = construct_conditional_tree(
                           make_parent_table(fptree),
                           make_item_index(fptree)[item])
          /\ inserted' = ConditionalInserts(make_parent_table(fptree),
                                            make_item_index(fptree)[item])
    /\ depth' = depth + 1
    /\ UNCHANGED inputVars
    /\ UNCHANGED <<pc, dataset, nread, item_count, min_count, itemsets,
                   dataset_size, min_confidence, min_lift, gi, candidates,
                   output, tested, rules>>

TreeNext == InsertCall \/ Descend

SpecTree == TreeInit /\ [][TreeNext]_vars

-----------------------------------------------------------------------------
(* Spec: the mining driver.  Two passes over the dataset build the FP-tree, *)
(* fp_growth mines it, generate_rules derives the rules.                   *)

\* the transactions TransactionReader can yield over the items S: sorted,
\* deduplicated, non-empty
Transactions(S) == {SortAscending(SetToSeq(T)) : T \in (SUBSET S) \ {{}}}

RECURSIVE CountTransaction(_, _)
\* for item in transaction { *item_count.entry(item).or_insert(0) += 1 }
CountTransaction(m, transaction) ==
    IF transaction = <<>> THEN m
    ELSE CountTransaction(MapAdd(m, Head(transaction), 1), Tail(transaction))

RECURSIVE count_item_frequencies(_)
\* count_item_frequencies
count_item_frequencies(data) ==
    IF data = <<>> THEN EmptyMap
    ELSE CountTransaction(
             count_item_frequencies(SubSeq(data, 1, Len(data) - 1)),
             data[Len(data)])

\* (min_support * (fptree.num_transactions() as f64)) as u32
MinCount(min_support, n) == (min_support[1] * n) \div min_support[2]

IdleTree ==
    /\ fptree = NewTree /\ inserted = <<>> /\ depth = 0 /\ min_count = 0

Init ==
    /\ pc = "count"
    /\ dataset \in SeqsUpTo(Transactions(Items), MaxTrans)
    /\ nread = 0
    /\ item_count = EmptyMap
    /\ IdleTree
    /\ IdleRules
    /\ IdleInput

\* first pass: count_item_frequencies over the whole input
CountPass ==
    /\ pc = "count"
    /\ item_count' = count_item_frequencies(dataset)
    /\ pc' = "build"
    /\ UNCHANGED inputVars
    /\ UNCHANGED <<fptree, inserted, depth, dataset, nread, min_count,
                   itemsets, dataset_size, min_confidence, min_lift, gi,
                   candidates, output, tested, rules>>

\* second pass, one transaction: sort by decreasing frequency and insert
BuildStep ==
    /\ pc = "build"
    /\ nread < Len(dataset)
    /\ fptree' = TreeInsert(fptree,
                            sort_transaction(dataset[nread + 1], item_count,
                                             "Decreasing"),
                            InsertWeight)
    /\ inserted' = Append(inserted,
                          [transaction |-> sort_transaction(dataset[nread + 1],
                                                            item_count,
                                                            "Decreasing"),
                           count |-> InsertWeight])
    /\ nread' = nread + 1
    /\ UNCHANGED inputVars
    /\ UNCHANGED <<pc, depth, dataset, item_count, min_count, itemsets,
                   dataset_size, min_confidence, min_lift, gi, candidates,
                   output, tested, rules>>

\* the top-level fp_growth call on the finished tree
Mine ==
    /\ pc = "build"
    /\ nread = Len(dataset)
    /\ \E min_support \in MinSupports :
          /\ min_count' = MinCount(min_support, fptree.num_transactions)
          /\ itemsets' = fp_growth(fptree,
                                   MinCount(min_support, fptree.num_transactions),
                                   <<>>, fptree.num_transactions)
    /\ dataset_size' = fptree.num_transactions
    /\ pc' = "mined"
    /\ UNCHANGED inputVars
    /\ UNCHANGED <<fptree, inserted, depth, dataset, nread, item_count,
                   min_confidence, min_lift, gi, candidates, output, tested,
                   rules>>

\* generate_rules on the mined itemsets
GenerateRules ==
    /\ pc = "mined"
    /\ \E conf \in ConfidenceLevels, lift \in LiftLevels :
          /\ min_confidence' = conf
          /\ min_lift' = lift
          /\ rules' = generate_rules(itemsets, dataset_size, conf, lift).rules
          /\ pc' = IF generate_rules(itemsets, dataset_size, conf, lift).ok
                   THEN "done" ELSE "panic"
    /\ UNCHANGED inputVars
    /\ UNCHANGED <<fptree, inserted, depth, dataset, nread, item_count,
                   min_count, itemsets, dataset_size, gi, candidates, output,
                   tested>>

Next == CountPass \/ BuildStep \/ Mine \/ GenerateRules

Spec == Init /\ [][Next]_vars

-----------------------------------------------------------------------------
(* SpecRules: generate_rules, one level of one itemset at a time, on the   *)
(* itemsets of a dataset with their counts.  SpecRulesOpen: the same on    *)
(* any list of itemsets a caller of generate_rules may pass.               *)

\* number of transactions of data that hold every item of the set S
SupportCount(S, data) ==
    Cardinality({k \in 1..Len(data) : S \subseteq Range(data[k])})

\* the itemsets over S that occur in data, with their counts
OccurringItemsets(S, data) ==
    SetToSeq({[items |-> SortAscending(SetToSeq(T)),
               count |-> SupportCount(T, data)] :
              T \in {U \in (SUBSET S) \ {{}} : SupportCount(U, data) > 0}})

\* datasets as multisets: sequences of transactions in a fixed order
RECURSIVE Ordered(_)
Ordered(s) == Len(s) <= 1 \/ (~LexLess(s[2], s[1]) /\ Ordered(Tail(s)))

RuleDatasets ==
    {s \in SeqsUpTo(Transactions(RuleItems), MaxRuleTrans) : Ordered(s)}

\* any list holding each itemset over OpenItems at most once
OpenLists ==
    {SetToSeq({[items |-> SortAscending(SetToSeq(T)), count |-> f[T]] :
               T \in {U \in DOMAIN f : f[U] > 0}}) :
     f \in [(SUBSET OpenItems) \ {{}} -> 0..MaxOpenCount]}

RulesStart ==
    /\ pc = "seed"
    /\ gi = 1
    /\ candidates = <<>> /\ output = <<>> /\ tested = <<>> /\ rules = <<>>
    /\ \E t \in RuleThresholds : min_confidence = t[1] /\ min_lift = t[2]
    /\ nread = 0 /\ item_count = EmptyMap
    /\ IdleTree
    /\ IdleInput

RulesInit ==
    /\ dataset \in RuleDatasets
    /\ itemsets = OccurringItemsets(RuleItems, dataset)
    /\ dataset_size = Len(dataset)
    /\ RulesStart

RulesOpenInit ==
    /\ dataset = <<>>
    /\ itemsets \in OpenLists
    /\ dataset_size = MaxOpenCount
    /\ RulesStart

CurrentItemset == itemsets[gi].items
CurrentSupport == <<itemsets[gi].count, dataset_size>>
CurrentGeneration == Generation(output, candidates, tested, TRUE)

\* the generation g becomes the state; a panic stops the call
Become(g) ==
    /\ output' = g.output
    /\ candidates' = g.candidates
    /\ tested' = g.tested
    /\ pc' = IF g.ok THEN "level" ELSE "panic"

\* the filter of generate_rules drops an itemset of one item
RuleSkip ==
    /\ pc = "seed"
    /\ gi <= Len(itemsets)
    /\ Len(CurrentItemset) <= 1
    /\ gi' = gi + 1
    /\ UNCHANGED inputVars
    /\ UNCHANGED <<pc, fptree, inserted, depth, dataset, nread, item_count,
                   min_count, itemsets, dataset_size, min_confidence, min_lift,
                   candidates, output, tested, rules>>

\* generate_rules_for_itemset starts: the consequents of one item
RuleSeed ==
    /\ pc = "seed"
    /\ gi <= Len(itemsets)
    /\ Len(CurrentItemset) > 1
    /\ Become(SeedLevel(Generation(<<>>, <<>>, <<>>, TRUE), CurrentItemset, 1,
                        CurrentSupport,
                        create_support_lookup(itemsets, dataset_size),
                        min_confidence, unwrap_or_zero(min_lift)))
    /\ UNCHANGED inputVars
    /\ UNCHANGED <<fptree, inserted, depth, dataset, nread, item_count,
                   min_count, itemsets, dataset_size, min_confidence, min_lift,
                   gi, rules>>

\* one iteration of the while loop
RuleLevel ==
    /\ pc = "level"
    /\ LevelLoopCond(candidates, Len(CurrentItemset))
    /\ Become(ExpandLevel(CurrentGeneration, CurrentItemset, CurrentSupport,
                          create_support_lookup(itemsets, dataset_size),
                          min_confidence, unwrap_or_zero(min_lift)))
    /\ UNCHANGED inputVars
    /\ UNCHANGED <<fptree, inserted, depth, dataset, nread, item_count,
                   min_count, itemsets, dataset_size, min_confidence, min_lift,
                   gi, rules>>

\* the while loop ends: the output of the itemset is collected
RuleCollect ==
    /\ pc = "level"
    /\ ~LevelLoopCond(candidates, Len(CurrentItemset))
    /\ rules' = Append(rules, output)
    /\ gi' = gi + 1
    /\ pc' = "seed"
    /\ output' = <<>>
    /\ candidates' = <<>>
    /\ tested' = <<>>
    /\ UNCHANGED inputVars
    /\ UNCHANGED <<fptree, inserted, depth, dataset, nread, item_count,
                   min_count, itemsets, dataset_size, min_confidence, min_lift>>

\* generate_rules returns
RuleReturn ==
    /\ pc = "seed"
    /\ gi > Len(itemsets)
    /\ pc' = "done"
    /\ UNCHANGED inputVars
    /\ UNCHANGED <<fptree, inserted, depth, dataset, nread, item_count,
                   min_count, itemsets, dataset_size, min_confidence, min_lift,
                   gi, candidates, output, tested, rules>>

RulesNext == RuleSkip \/ RuleSeed \/ RuleLevel \/ RuleCollect \/ RuleReturn

SpecRules == RulesInit /\ [][RulesNext]_vars

SpecRulesOpen == RulesOpenInit /\ [][RulesNext]_vars

-----------------------------------------------------------------------------
(* SpecItemizer: id_of calls and ItemCounter.add calls of a first pass,    *)
(* then reorder_sorted.                                                    *)

Strings == SeqsUpTo(Letters, MaxStrLen)

ItemizerInit ==
    /\ pc = "itemizer"
    /\ IdleTree /\ IdleMining /\ IdleRules /\ IdleInput

\* id_of(s) for any string s
IdOfCall ==
    /\ pc = "itemizer"
    /\ \E s \in Strings :
          /\ Cardinality(strings_seen \cup {s}) <= MaxIds
          /\ itemizer' = id_of(itemizer, s).itemizer
          /\ strings_seen' = strings_seen \cup {s}
          /\ pc' = IF id_of(itemizer, s).ok THEN "itemizer" ELSE "panic"
    /\ UNCHANGED <<item_counter, lines, yielded, arg, result>>
    /\ UNCHANGED miningVars

\* item_count.add(&item, 1) for an item id_of has returned
CountItem ==
    /\ pc = "itemizer"
    /\ SumSeq(item_counter) < MaxAdds
    /\ \E id \in 1..(itemizer.next_item_id - 1) :
          item_counter' = ItemCounter_add(item_counter, id, 1)
    /\ UNCHANGED <<pc, itemizer, strings_seen, lines, yielded, arg, result>>
    /\ UNCHANGED miningVars

\* itemizer.reorder_sorted(&mut item_count)
Reorder ==
    /\ pc = "itemizer"
    /\ itemizer' = reorder_sorted(itemizer, item_counter).itemizer
    /\ item_counter' = reorder_sorted(itemizer, item_counter).item_count
    /\ pc' = "reordered"
    /\ UNCHANGED <<strings_seen, lines, yielded, arg, result>>
    /\ UNCHANGED miningVars

ItemizerNext == IdOfCall \/ CountItem \/ Reorder

SpecItemizer == ItemizerInit /\ [][ItemizerNext]_vars

-----------------------------------------------------------------------------
(* SpecCounter: one call of sort_descending or items_with_count_at_least   *)
(* on any ItemCounter.                                                     *)

\* the vectors an ItemCounter can hold: index 0 is the null item
Counters ==
    UNION {[1..n -> 0..MaxCounterCount] : n \in 0..(MaxCounterItem + 1)}

\* the Counter<Item> that received the same add calls: its HashMap has a key
\* for every item that was added to
CounterMap(counter) ==
    [item \in {i \in 0..(Len(counter) - 1) : counter[i + 1] > 0} |->
        counter[item + 1]]

CounterInit ==
    /\ pc = "counter"
    /\ item_counter \in Counters
    /\ itemizer = NewItemizer /\ strings_seen = {}
    /\ lines = <<>> /\ yielded = <<>> /\ arg = <<>> /\ result = <<>>
    /\ IdleTree /\ IdleMining /\ IdleRules

\* item_counter.sort_descending(&mut v) on any list of non-null items
SortDescendingCall ==
    /\ pc = "counter"
    /\ \E v \in SeqsUpTo(1..MaxCounterItem, MaxSortLen) :
          /\ arg' = v
          /\ result' = sort_descending(item_counter, v)
    /\ pc' = "sort_descending"
    /\ UNCHANGED <<itemizer, item_counter, strings_seen, lines, yielded>>
    /\ UNCHANGED miningVars

\* item_counter.items_with_count_at_least(min)
ItemsAtLeastCall ==
    /\ pc = "counter"
    /\ \E min \in 0..(MaxCounterCount + 1) :
          /\ arg' = min
          /\ result' = items_with_count_at_least(item_counter, min)
    /\ pc' = "items_with_count_at_least"
    /\ UNCHANGED <<itemizer, item_counter, strings_seen, lines, yielded>>
    /\ UNCHANGED miningVars

\* Counter<Item>::items_with_count_at_least(min)
CounterItemsAtLeastCall ==
    /\ pc = "counter"
    /\ \E min \in 0..(MaxCounterCount + 1) :
          /\ arg' = min
          /\ result' = Counter_items_with_count_at_least(
                           CounterMap(item_counter), min)
    /\ pc' = "Counter::items_with_count_at_least"
    /\ UNCHANGED <<itemizer, item_counter, strings_seen, lines, yielded>>
    /\ UNCHANGED miningVars

CounterNext == SortDescendingCall \/ ItemsAtLeastCall \/ CounterItemsAtLeastCall

SpecCounter == CounterInit /\ [][CounterNext]_vars

-----------------------------------------------------------------------------
(* SpecReader: a TransactionReader drained by next() on any input file,    *)
(* and dedupe_sorted called on any sorted vector as test_dedupe_sorted     *)
(* does.  arg holds the lines consumed so far, yielded the transactions    *)
(* returned so far.                                                        *)

\* the fields a line is made of: "", "a" and " b"
Fields == {<<>>, <<97>>, <<32, 98>>}

RECURSIVE Join(_)
\* the fields separated by commas
Join(fields) ==
    IF Len(fields) = 1 THEN fields[1]
    ELSE fields[1] \o <<44>> \o Join(Tail(fields))

InputLines == {Join(f) : f \in SeqsUpTo(Fields, MaxFields) \ {<<>>}}

Files == SeqsUpTo(InputLines, MaxLines)

\* the non-decreasing vectors of items
SortedVectors ==
    {v \in SeqsUpTo(1..MaxDedupeLen, MaxDedupeLen) :
        \A k \in 1..(Len(v) - 1) : v[k] <= v[k + 1]}

ReaderInit ==
    /\ \/ pc = "reader" /\ lines \in Files
       \/ pc = "test_dedupe_sorted" /\ lines = <<>>
    /\ itemizer = NewItemizer /\ item_counter = NewItemCounter
    /\ strings_seen = {} /\ yielded = <<>> /\ arg = <<>> /\ result = <<>>
    /\ IdleTree /\ IdleMining /\ IdleRules

\* one call of next() that returns Some(splits)
ReadNext ==
    /\ pc = "reader"
    /\ LET call == next(lines, itemizer)
       IN  /\ call.some
           /\ lines' = call.rest
           /\ arg' = arg \o SubSeq(lines, 1, call.taken)
           /\ itemizer' = call.itemizer
           /\ yielded' = IF call.ok THEN Append(yielded, call.splits) ELSE yielded
           /\ result' = IF call.ok THEN <<call.splits>> ELSE <<>>
           /\ pc' = IF call.ok THEN "reader" ELSE "panic"
    /\ UNCHANGED <<item_counter, strings_seen>>
    /\ UNCHANGED miningVars

\* the call of next() that returns None
ReadEnd ==
    /\ pc = "reader"
    /\ LET call == next(lines, itemizer)
       IN  /\ ~call.some
           /\ lines' = call.rest
           /\ arg' = arg \o SubSeq(lines, 1, call.taken)
           /\ itemizer' = call.itemizer
           /\ result' = <<>>
           /\ pc' = "eof"
    /\ UNCHANGED <<item_counter, strings_seen, yielded>>
    /\ UNCHANGED miningVars

\* dedupe_sorted(&mut v) on any sorted vector
DedupeCall ==
    /\ pc = "test_dedupe_sorted"
    /\ \E v \in SortedVectors :
          /\ arg' = v
          /\ result' = dedupe_sorted(v)
    /\ pc' = "dedupe_sorted"
    /\ UNCHANGED <<itemizer, item_counter, strings_seen, lines, yielded>>
    /\ UNCHANGED miningVars

ReaderNext == ReadNext \/ ReadEnd \/ DedupeCall

SpecReader == ReaderInit /\ [][ReaderNext]_vars

-----------------------------------------------------------------------------
(* SpecSets: one call of vec_sets::union, or of intersection and           *)
(* intersection_size, on any two sorted vectors.                           *)

\* the strictly ascending vectors of items
AscendingVectors == {SortAscending(SetToSeq(S)) : S \in SUBSET (1..MaxSetItem)}

SetsInit ==
    /\ pc = "sets"
    /\ IdleInput
    /\ IdleTree /\ IdleMining /\ IdleRules

\* union(&a, &b)
UnionCall ==
    /\ pc = "sets"
    /\ \E a, b \in AscendingVectors :
          /\ arg' = <<a, b>>
          /\ result' = union(a, b)
    /\ pc' = "union"
    /\ UNCHANGED <<itemizer, item_counter, strings_seen, lines, yielded>>
    /\ UNCHANGED miningVars

\* intersection(&a, &b) and intersection_size(&a, &b) on the same vectors
IntersectionCall ==
    /\ pc = "sets"
    /\ \E a, b \in AscendingVectors :
          /\ arg' = <<a, b>>
          /\ result' = [vector |-> intersection(a, b),
                        size |-> intersection_size(a, b)]
    /\ pc' = "intersection"
    /\ UNCHANGED <<itemizer, item_counter, strings_seen, lines, yielded>>
    /\ UNCHANGED miningVars

SetsNext == UnionCall \/ IntersectionCall

SpecSets == SetsInit /\ [][SetsNext]_vars

-----------------------------------------------------------------------------
(* SpecRuleEq: two Rule values compared with == and hashed.                *)

\* values of the statistics of a Rule
StatValues == {<<1, 2>>, <<1, 1>>}

\* the non-empty strictly ascending vectors over 1..MaxEqItem
RuleSides ==
    {SortAscending(SetToSeq(S)) : S \in (SUBSET (1..MaxEqItem)) \ {{}}}

\* Rule values with disjoint sides and any statistics
RuleValues ==
    {[antecedent |-> a, consequent |-> c,
      confidence |-> conf, lift |-> lift, support |-> sup] :
        a \in RuleSides,
        c \in RuleSides,
        conf \in StatValues, lift \in StatValues, sup \in StatValues}

RuleEqInit ==
    /\ pc = "rule"
    /\ IdleInput
    /\ IdleTree /\ IdleMining /\ IdleRules

\* a == b, and both hashed with the same Hasher
RuleCompare ==
    /\ pc = "rule"
    /\ \E a, b \in {r \in RuleValues :
                        Range(r.antecedent) \cap Range(r.consequent) = {}} :
          /\ arg' = <<a, b>>
          /\ result' = [eq |-> Rule_eq(a, b),
                        hash_a |-> Rule_hash(a), hash_b |-> Rule_hash(b)]
    /\ pc' = "rule_compared"
    /\ UNCHANGED <<itemizer, item_counter, strings_seen, lines, yielded>>
    /\ UNCHANGED miningVars

RuleEqNext == RuleCompare

SpecRuleEq == RuleEqInit /\ [][RuleEqNext]_vars

-----------------------------------------------------------------------------
(* SpecItemSetOrd: two ItemSet values compared with partial_cmp (the       *)
(* comparison operators) and with Ord::cmp (sort).                         *)

\* the counts of the compared ItemSets
CountValues == {1, 2}

ItemSetValues ==
    {NewItemSet(SetToSeq(S), c) : S \in SUBSET (1..MaxOrdItem), c \in CountValues}

ItemSetOrdInit ==
    /\ pc = "itemset"
    /\ IdleInput
    /\ IdleTree /\ IdleMining /\ IdleRules

\* a.partial_cmp(&b) and a.cmp(&b)
ItemSetCompare ==
    /\ pc = "itemset"
    /\ \E a, b \in ItemSetValues :
          /\ arg' = <<a, b>>
          /\ result' = [partial |-> ItemSet_partial_cmp(a, b),
                        total |-> ItemSet_cmp(a, b)]
    /\ pc' = "itemset_compared"
    /\ UNCHANGED <<itemizer, item_counter, strings_seen, lines, yielded>>
    /\ UNCHANGED miningVars

ItemSetOrdNext == ItemSetCompare

SpecItemSetOrd == ItemSetOrdInit /\ [][ItemSetOrdNext]_vars

-----------------------------------------------------------------------------
(* SpecPar: the parallel tasks of fp_growth (one per frequent item) and of *)
(* generate_rules (one per itemset of more than one item), run one at a    *)
(* time in any order.  arg holds the task list of the running par_iter and *)
(* result maps the index of each finished task to what it returned;        *)
(* collect() puts the results together in the order of the task list.      *)

RECURSIVE InsertSorted(_, _, _)
\* the second pass of main over the transactions data[i..]
InsertSorted(tree, data, counts) ==
    IF data = <<>> THEN tree
    ELSE InsertSorted(TreeInsert(tree,
                                 sort_transaction(Head(data), counts, "Decreasing"),
                                 InsertWeight),
                      Tail(data), counts)

RECURSIVE CollectInOrder(_, _)
\* collect(): the results of the tasks 1..n, concatenated in task order
CollectInOrder(results, n) ==
    IF n = 0 THEN <<>> ELSE CollectInOrder(results, n - 1) \o results[n]

\* the indices of the itemsets that pass .filter(|&i| i.items.len() > 1)
RuleTasks(list) == {k \in 1..Len(list) : Len(list[k].items) > 1}

RECURSIVE CollectRules(_, _, _)
\* collect(): one Vec<Rule> for each filtered itemset, in itemset order
CollectRules(results, list, k) ==
    IF k > Len(list) THEN <<>>
    ELSE (IF k \in RuleTasks(list) THEN <<results[k].output>> ELSE <<>>)
         \o CollectRules(results, list, k + 1)

ParInit ==
    /\ pc = "par_mine"
    /\ dataset \in SeqsUpTo(Transactions(1..MaxParItem), MaxParTrans)
    /\ nread = Len(dataset)
    /\ item_count = count_item_frequencies(dataset)
    /\ fptree = InsertSorted(NewTree, dataset, item_count)
    /\ inserted = <<>> /\ depth = 0
    /\ min_count \in {MinCount(m, Len(dataset)) : m \in MinSupports}
    /\ \E t \in RuleThresholds : min_confidence = t[1] /\ min_lift = t[2]
    /\ itemsets = <<>> /\ dataset_size = 0
    /\ gi = 0 /\ candidates = <<>> /\ output = <<>> /\ tested = <<>>
    /\ rules = <<>>
    /\ itemizer = NewItemizer /\ item_counter = NewItemCounter
    /\ strings_seen = {} /\ lines = <<>> /\ yielded = <<>>
    /\ arg = FrequentItems(fptree, min_count)
    /\ result = EmptyMap

\* one task of the flat_map of the top-level fp_growth call
MineTask ==
    /\ pc = "par_mine"
    /\ \E i \in (1..Len(arg)) \ DOMAIN result :
          result' = MapPut(result, i,
                           FlatMapTask(fptree, min_count, <<>>,
                                       fptree.num_transactions, arg[i],
                                       SetToSeq({arg[j] : j \in DOMAIN result})))
    /\ UNCHANGED <<pc, arg, itemizer, item_counter, strings_seen, lines, yielded>>
    /\ UNCHANGED miningVars

\* every task has returned: fp_growth collects and returns, and
\* generate_rules builds its support table and starts its tasks
CollectItemsets ==
    /\ pc = "par_mine"
    /\ DOMAIN result = 1..Len(arg)
    /\ itemsets' = CollectInOrder(result, Len(arg))
    /\ dataset_size' = fptree.num_transactions
    /\ arg' = CollectInOrder(result, Len(arg))
    /\ result' = EmptyMap
    /\ pc' = "par_rules"
    /\ UNCHANGED <<itemizer, item_counter, strings_seen, lines, yielded>>
    /\ UNCHANGED <<fptree, inserted, depth, dataset, nread, item_count,
                   min_count, min_confidence, min_lift, gi, candidates, output,
                   tested, rules>>

\* one task of the map of generate_rules
RuleTask ==
    /\ pc = "par_rules"
    /\ LET itemset_support == create_support_lookup(itemsets, dataset_size)
       IN  \E k \in RuleTasks(arg) \ DOMAIN result :
              result' = MapPut(result, k,
                               generate_rules_for_itemset(
                                   arg[k].items, <<arg[k].count, dataset_size>>,
                                   itemset_support, min_confidence,
                                   unwrap_or_zero(min_lift)))
    /\ UNCHANGED <<pc, arg, itemizer, item_counter, strings_seen, lines, yielded>>
    /\ UNCHANGED miningVars

\* every task has returned: generate_rules collects and returns
CollectRuleLists ==
    /\ pc = "par_rules"
    /\ DOMAIN result = RuleTasks(arg)
    /\ rules' = CollectRules(result, arg, 1)
    /\ pc' = IF \A k \in DOMAIN result : result[k].ok THEN "done" ELSE "panic"
    /\ UNCHANGED inputVars
    /\ UNCHANGED <<fptree, inserted, depth, dataset, nread, item_count,
                   min_count, itemsets, dataset_size, min_confidence, min_lift,
                   gi, candidates, output, tested>>

ParNext == MineTask \/ CollectItemsets \/ RuleTask \/ CollectRuleLists

SpecPar == ParInit /\ [][ParNext]_vars

-----------------------------------------------------------------------------
(* SpecGrowth: one chain of nested fp_growth calls, from the top-level     *)
(* call down to a call that makes no further call.  fptree is the tree of  *)
(* the innermost call, arg its path, result its path_count and depth the   *)
(* number of calls above it.                                               *)

GrowthInit ==
    /\ pc = "load"
    /\ IdleTree /\ IdleMining /\ IdleRules /\ IdleInput

\* the driver reads a dataset, builds its tree and makes the top-level call
\* fp_growth(&fptree, min_count, &vec![], num_transactions)
GrowthStart ==
    /\ pc = "load"
    /\ \E data \in SeqsUpTo(Transactions(1..MaxGrowItem), MaxGrowTrans) :
          /\ dataset' = data
          /\ nread' = Len(data)
          /\ item_count' = count_item_frequencies(data)
          /\ fptree' = InsertSorted(NewTree, data, count_item_frequencies(data))
          /\ min_count' \in {MinCount(m, Len(data)) : m \in MinSupports}
          /\ result' = Len(data)
    /\ arg' = <<>>
    /\ pc' = "fp_growth"
    /\ UNCHANGED <<itemizer, item_counter, strings_seen, lines, yielded>>
    /\ UNCHANGED <<inserted, depth, itemsets, dataset_size, min_confidence,
                   min_lift, gi, candidates, output, tested, rules>>

\* the innermost call reaches one of its frequent items and calls fp_growth
\* on the conditional tree of that item
GrowthCall ==
    /\ pc = "fp_growth"
    /\ \E item \in Range(FrequentItems(fptree, min_count)) :
          /\ fptree' = CalleeTree(fptree,
                                  construct_conditional_tree(
                                      make_parent_table(fptree),
                                      make_item_index(fptree)[item]))
          /\ arg' = Append(arg, item)
          /\ result' = Min(result, get_item_count(item, fptree.item_count))
    /\ depth' = depth + 1
    /\ UNCHANGED <<pc, itemizer, item_counter, strings_seen, lines, yielded>>
    /\ UNCHANGED <<inserted, dataset, nread, item_count, min_count, itemsets,
                   dataset_size, min_confidence, min_lift, gi, candidates,
                   output, tested, rules>>

\* the innermost call has no frequent item: it returns without a call
GrowthReturn ==
    /\ pc = "fp_growth"
    /\ FrequentItems(fptree, min_count) = <<>>
    /\ pc' = "returned"
    /\ UNCHANGED inputVars
    /\ UNCHANGED miningVars

GrowthNext == GrowthStart \/ GrowthCall \/ GrowthReturn

SpecGrowth == GrowthInit /\ [][GrowthNext]_vars

\* a call that is running keeps running
SpecGrowthFair == SpecGrowth /\ WF_vars(GrowthNext)

-----------------------------------------------------------------------------
(* Properties of the FP-tree.                                              *)

RECURSIVE NoTwinChildren(_)
\* no node below (and including) node has two children with the same item
NoTwinChildren(node) ==
    /\ \A i, j \in 1..Len(node.children) :
          i # j => node.children[i].item # node.children[j].item
    /\ \A i \in 1..Len(node.children) : NoTwinChildren(node.children[i])

\* C8: after any sequence of FPTree.insert calls, the inserts that build
\* conditional trees included, no node has two children carrying the same item.
C8_NoDuplicateChildren == \A node \in {fptree.root} : NoTwinChildren(node)

\* a node with two children, reached again by a later insert
C8_Witness ==
    /\ Len(fptree.root.children) >= 2
    /\ \E i \in 1..Len(fptree.root.children) :
          /\ fptree.root.children[i].count >= 2
          /\ Len(fptree.root.children[i].children) >= 1

\* sum of the counts of the recorded inserts whose transaction starts with path
PrefixCount(path) ==
    SumSeq([k \in 1..Len(inserted) |->
               IF IsPrefix(path, inserted[k].transaction)
               THEN inserted[k].count ELSE 0])

RECURSIVE CountsMatch(_, _)
\* every node strictly below node, reached by path, has the count of its path
CountsMatch(node, path) ==
    \A i \in 1..Len(node.children) :
        LET child == node.children[i]
            childPath == Append(path, child.item)
        IN  /\ child.count = PrefixCount(childPath)
            /\ CountsMatch(child, childPath)

\* C9: every non-root node's count is the sum of c over the inserted
\* transactions that have the node's root-to-node path as a prefix, and the
\* root's count is never changed.
C9_NodeCounts ==
    /\ CountsMatch(fptree.root, <<>>)
    /\ fptree.root.count = 0

\* a node shared by two inserted transactions, one a proper prefix of the
\* other, with a child of its own
C9_Witness ==
    /\ \E a, b \in 1..Len(inserted) :
          /\ inserted[a].transaction # <<>>
          /\ Len(inserted[a].transaction) < Len(inserted[b].transaction)
          /\ IsPrefix(inserted[a].transaction, inserted[b].transaction)
    /\ \E i \in 1..Len(fptree.root.children) :
          /\ fptree.root.children[i].count >= 2
          /\ fptree.root.children[i].children # <<>>

RECURSIVE ItemNodeSum(_, _)
\* sum of the counts of the nodes strictly below node that carry item
ItemNodeSum(node, item) ==
    SumSeq([i \in 1..Len(node.children) |->
               (IF node.children[i].item = item
                THEN node.children[i].count ELSE 0)
               + ItemNodeSum(node.children[i], item)])

\* C10: for every item the tree's own item counter equals the sum of the
\* counts of all nodes carrying that item, and num_transactions equals the
\* sum of all inserted counts.
C10_ItemCounter ==
    /\ \A item \in TreeItems :
          get_item_count(item, fptree.item_count) = ItemNodeSum(fptree.root, item)
    /\ DOMAIN fptree.item_count \subseteq TreeItems
    /\ fptree.num_transactions =
          SumSeq([k \in 1..Len(inserted) |-> inserted[k].count])

\* an item carried by nodes on two different branches, inserted with weight
C10_Witness ==
    \E item \in DOMAIN fptree.item_count :
        /\ Len(make_item_index(fptree)[item]) >= 2
        /\ fptree.item_count[item] > Len(make_item_index(fptree)[item])

-----------------------------------------------------------------------------
(* Properties of fp_growth (Spec).                                         *)

Mined == pc \in {"mined", "done", "panic"}

ItemsetOf(S) == SortAscending(SetToSeq(S))

\* C2: the itemsets returned by the top-level fp_growth call are exactly the
\* non-empty itemsets whose support count over the transactions is strictly
\* greater than min_count; a count equal to min_count is excluded.
C2_FrequentItemsets ==
    Mined =>
        {itemsets[k].items : k \in 1..Len(itemsets)}
          = {ItemsetOf(S) : S \in {T \in (SUBSET Items) \ {{}} :
                                      SupportCount(T, dataset) > min_count}}

\* an itemset of two items is returned while an itemset whose count is
\* exactly min_count is left out
C2_Witness ==
    /\ pc = "mined"
    /\ min_count >= 1
    /\ \E k \in 1..Len(itemsets) : Len(itemsets[k].items) >= 2
    /\ \E S \in (SUBSET Items) \ {{}} : SupportCount(S, dataset) = min_count

\* C3: the count field of every ItemSet returned by the top-level fp_growth
\* call is the number of transactions that contain every item of the itemset.
C3_ItemsetCounts ==
    Mined =>
        \A k \in 1..Len(itemsets) :
            itemsets[k].count = SupportCount(Range(itemsets[k].items), dataset)

\* itemsets of several items with different counts, one above one
C3_Witness ==
    /\ pc = "mined"
    /\ \E k, j \in 1..Len(itemsets) :
          /\ Len(itemsets[k].items) >= 2
          /\ Len(itemsets[j].items) >= 2
          /\ itemsets[k].count >= 2
          /\ itemsets[j].count < itemsets[k].count

RECURSIVE Flatten(_)
Flatten(ss) == IF ss = <<>> THEN <<>> ELSE Head(ss) \o Flatten(Tail(ss))

\* C7 as stated: with an empty dataset, or with min_count = 0, mining
\* produces an empty rule set.
C7_EmptyRuleSetAsStated ==
    (pc = "done" /\ (dataset = <<>> \/ min_count = 0)) => Flatten(rules) = <<>>

\* C7 amended: with an empty dataset mining produces no itemset and no rule;
\* with min_count = 0 every itemset that occurs in a transaction is mined
\* (and rules are generated from them).
C7_EmptyDataset ==
    pc = "done" =>
        /\ dataset = <<>> => (itemsets = <<>> /\ rules = <<>>)
        /\ min_count = 0 =>
              {itemsets[k].items : k \in 1..Len(itemsets)}
                = {ItemsetOf(S) : S \in {T \in (SUBSET Items) \ {{}} :
                                            SupportCount(T, dataset) > 0}}

\* the driver ran to the end on an empty dataset
C7_Witness == pc = "done" /\ dataset = <<>> /\ min_count = 0

-----------------------------------------------------------------------------
(* Properties of rule generation (SpecRules, SpecRulesOpen).               *)

\* the itemsets generate_rules keeps: more than one item
PairItemsets == SelectSeq(itemsets, LAMBDA i : Len(i.items) > 1)

SupportTable == create_support_lookup(itemsets, dataset_size)

\* the support table holds every non-empty subset of every listed itemset,
\* no itemset twice, and supports do not increase when items are added
ClosedMonotone ==
    LET table == SupportTable
    IN  /\ \A k, j \in 1..Len(itemsets) :
              itemsets[k].items = itemsets[j].items => k = j
        /\ \A k \in 1..Len(itemsets) :
              /\ itemsets[k].count >= 1
              /\ \A S \in (SUBSET Range(itemsets[k].items)) \ {{}} :
                    /\ ItemsetOf(S) \in DOMAIN table
                    /\ table[ItemsetOf(S)][1] >= itemsets[k].count

\* the partitions (A, C) of the itemset i that meet both thresholds, with
\* the supports read from table
QualifyingPartitions(i, table) ==
    LET all == Range(i.items)
        lift_threshold == unwrap_or_zero(min_lift)
    IN  {<<ItemsetOf(all \ C), ItemsetOf(C)>> :
            C \in {D \in (SUBSET all) \ {{}, all} :
                      LET a_sup == table[ItemsetOf(all \ D)][1]
                          c_sup == table[ItemsetOf(D)][1]
                      IN  \* sup(I) / sup(A) >= min_confidence
                          /\ i.count * min_confidence[2]
                                >= min_confidence[1] * a_sup
                          \* sup(I) / (sup(A) * sup(C)) >= min_lift
                          /\ i.count * dataset_size * lift_threshold[2]
                                >= lift_threshold[1] * a_sup * c_sup}}

RuleKeys(rs) == {<<rs[n].antecedent, rs[n].consequent>> : n \in 1..Len(rs)}

\* C1: on a closed, monotone support table generate_rules emits for each
\* itemset I of two or more items exactly the rules (A, C) with A and C a
\* partition of I into non-empty parts, confidence sup(I)/sup(A) >=
\* min_confidence and lift sup(I)/(sup(A)*sup(C)) >= min_lift; this is the
\* rule set of the naive generator that tries every partition.
C1_RulesMatchNaive ==
    (pc = "done" /\ ClosedMonotone) =>
        LET table == SupportTable
            pairs == PairItemsets
        IN  /\ Len(rules) = Len(pairs)
            /\ \A j \in 1..Len(rules) :
                  /\ RuleKeys(rules[j]) = QualifyingPartitions(pairs[j], table)
                  /\ \A r \in Range(rules[j]) :
                        /\ r.confidence[1] * table[r.antecedent][1]
                              = pairs[j].count * r.confidence[2]
                        /\ r.lift[1] * table[r.antecedent][1]
                                     * table[r.consequent][1]
                              = pairs[j].count * dataset_size * r.lift[2]
            /\ Range(Flatten(rules))
                  = naive_generate_rules(itemsets, dataset_size,
                                         min_confidence, min_lift)

\* an itemset of four items whose rules were pruned by a threshold and reach
\* a consequent of three items
C1_Witness ==
    /\ pc = "done"
    /\ \E j \in 1..Len(rules) :
          /\ Len(PairItemsets[j].items) = 4
          /\ Len(rules[j]) < 14
          /\ \E r \in Range(rules[j]) : Len(r.consequent) = 3

StrictlyAscending(s) == \A a, b \in 1..Len(s) : a < b => s[a] < s[b]

\* the rule r splits the itemset I
SplitsItemset(r, I) ==
    /\ r.antecedent # <<>>
    /\ r.consequent # <<>>
    /\ Range(r.antecedent) \cap Range(r.consequent) = {}
    /\ StrictlyAscending(r.antecedent)
    /\ StrictlyAscending(r.consequent)
    /\ Range(r.antecedent) \cup Range(r.consequent) = Range(I)

\* C4: every rule emitted for a sorted duplicate-free itemset I has a
\* non-empty antecedent and a non-empty consequent that are disjoint, each in
\* strictly ascending order, and whose union is exactly I.
C4_RulesSplitItemset ==
    /\ pc \in {"level", "panic"} =>
          \A r \in Range(output) : SplitsItemset(r, CurrentItemset)
    \* the rules collected last; every collected list is the last one once
    /\ rules # <<>> =>
          \A r \in Range(rules[Len(rules)]) :
              SplitsItemset(r, PairItemsets[Len(rules)].items)

\* a rule with two items on each side has been emitted
C4_Witness ==
    /\ pc = "level"
    /\ \E r \in Range(output) :
          Len(r.antecedent) = 2 /\ Len(r.consequent) = 2

NoRepeat(s) == \A a, b \in 1..Len(s) : s[a] = s[b] => a = b

\* C5: within the rule generation of one itemset no (antecedent, consequent)
\* pair is emitted more than once and no consequent is generated or tested
\* more than once.
C5_NoDuplicates ==
    /\ NoRepeat([n \in 1..Len(output) |->
                    <<output[n].antecedent, output[n].consequent>>])
    /\ NoRepeat(tested)
    \* the rules collected last; every collected list is the last one once
    /\ rules # <<>> =>
          NoRepeat([n \in 1..Len(rules[Len(rules)]) |->
                       <<rules[Len(rules)][n].antecedent,
                         rules[Len(rules)][n].consequent>>])

\* all fourteen consequents of an itemset of four items have been tested
C5_Witness ==
    /\ pc = "level"
    /\ Len(CurrentItemset) = 4
    /\ Len(tested) = 14
    /\ Len(output) >= 7

\* the candidate consequent, or its antecedent in the current itemset, has no
\* entry in the support table
LacksEntry(consequent) ==
    \/ consequent \notin DOMAIN SupportTable
    \/ split_out(CurrentItemset, consequent) \notin DOMAIN SupportTable

\* C6: when the support table has no entry for a candidate rule's antecedent
\* or consequent, the candidate is rejected, no rule is emitted for it, and
\* no error or panic is raised.
C6_MissingEntryRejected ==
    \A n \in 1..Len(tested) :
        LacksEntry(tested[n]) =>
            /\ pc # "panic"
            /\ \A r \in Range(output) : r.consequent # tested[n]

-----------------------------------------------------------------------------
(* Properties of conditional trees (SpecTree).                             *)

RECURSIVE NodePaths(_, _, _)
\* the nodes below node from child i on, parents before children, each with
\* its count and the items of its ancestors (prefix holds those of node)
NodePaths(node, i, prefix) ==
    IF i > Len(node.children) THEN <<>>
    ELSE LET child == node.children[i]
         IN  <<[item |-> child.item, count |-> child.count, path |-> prefix]>>
             \o NodePaths(child, 1, Append(prefix, child.item))
             \o NodePaths(node, i + 1, prefix)

\* the nodes of tree that carry item
ItemNodes(tree, item) ==
    SelectSeq(NodePaths(tree.root, 1, <<>>), LAMBDA n : n.item = item)

\* the tree that C11 describes for item
ExpectedConditionalTree(tree, item) ==
    LET nodes == ItemNodes(tree, item)
    IN  InsertAll(NewTree, [k \in 1..Len(nodes) |->
                               [transaction |-> nodes[k].path,
                                count |-> nodes[k].count]])

\* sum of the counts of the nodes carrying item that have an ancestor
\* carrying j
ConditionalSupport(tree, item, j) ==
    LET nodes == ItemNodes(tree, item)
    IN  SumSeq([k \in 1..Len(nodes) |->
                   IF j \in Range(nodes[k].path) THEN nodes[k].count ELSE 0])

\* the items with a node in tree
IndexedItems(tree) == DOMAIN make_item_index(tree)

ConditionalTreeOf(tree, item) ==
    construct_conditional_tree(make_parent_table(tree),
                               make_item_index(tree)[item])

RECURSIVE TreeItemsBelow(_)
\* the items carried by the nodes below node
TreeItemsBelow(node) ==
    UNION {{node.children[i].item} \cup TreeItemsBelow(node.children[i]) :
           i \in 1..Len(node.children)}

\* C12: the conditional tree built for an item has no node carrying that
\* item and no entry for it in its item counter, at every depth of the
\* recursion.
C12_ItemAbsent ==
    [][depth' = depth + 1 =>
          \A i \in IndexedItems(fptree) :
              fptree' = ConditionalTreeOf(fptree, i) =>
                  /\ i \notin TreeItemsBelow(fptree'.root)
                  /\ i \notin DOMAIN fptree'.item_count]_vars

\* a conditional tree that holds nodes
C12_Witness ==
    /\ depth >= 1
    /\ fptree.root.children # <<>>
    /\ fptree.num_transactions >= 2

-----------------------------------------------------------------------------
(* Properties of the Itemizer (SpecItemizer).                              *)

AssignedIds == 1..Len(itemizer.item_id_to_str)

\* C13: after reorder_sorted, for all assigned ids id1 and id2, id1 < id2
\* if and only if str_of(id1) is lexicographically less than str_of(id2).
C13_IdsFollowStrings ==
    pc = "reordered" =>
        \A id1, id2 \in AssignedIds :
            id1 < id2 <=> LexLess(str_of(itemizer, id1), str_of(itemizer, id2))

\* three strings were assigned ids out of order and have been reordered
C13_Witness ==
    /\ pc = "reordered"
    /\ Len(itemizer.item_id_to_str) = 3
    /\ strings_seen = {<<>>, <<97>>, <<98>>}

\* C14: reorder_sorted rewrites the ItemCounter so that for every item
\* string the count under its new id equals the count it had under its old
\* id before the reorder.
C14_CountsFollowStrings ==
    [][pc' = "reordered" =>
          \A s \in strings_seen :
              ItemCounter_get(item_counter', itemizer'.item_str_to_id[s])
                  = ItemCounter_get(item_counter, itemizer.item_str_to_id[s])]_vars

\* after the reorder the counter holds two different counts
C14_Witness ==
    /\ pc = "reordered"
    /\ \E id1, id2 \in AssignedIds :
          /\ id1 < id2
          /\ ItemCounter_get(item_counter, id1) > ItemCounter_get(item_counter, id2)
          /\ ItemCounter_get(item_counter, id2) > 0

\* C15: after any id_of calls, optionally followed by reorder_sorted, the
\* Itemizer is a bijection between the N distinct strings seen and the ids
\* 1..N: str_of(id_of(s)) = s, id_of(str_of(id)) = id, and id_of on a known
\* string returns its id without assigning a new one.
C15_Bijection ==
    pc \in {"itemizer", "reordered"} =>
        /\ AssignedIds = 1..Cardinality(strings_seen)
        /\ DOMAIN itemizer.item_str_to_id = strings_seen
        /\ \A s \in strings_seen :
              /\ id_of(itemizer, s).id \in AssignedIds
              /\ str_of(itemizer, id_of(itemizer, s).id) = s
              /\ id_of(itemizer, s).itemizer = itemizer
        /\ \A id \in AssignedIds :
              /\ str_of(itemizer, id) \in strings_seen
              /\ id_of(itemizer, str_of(itemizer, id)).id = id

\* three strings known, reordered so that some id changed
C15_Witness ==
    /\ pc = "reordered"
    /\ Cardinality(strings_seen) = 3
    /\ itemizer.item_str_to_id[<<98>>] = 3

-----------------------------------------------------------------------------
(* Properties of the ItemCounter (SpecCounter).                            *)

\* the HashMap<u32, u32> holding the counts of counter
CountsOf(counter) == [item \in 0..(Len(counter) - 1) |-> counter[item + 1]]

\* a comes before b: greater count first, equal counts by greater id first
DescendingBefore(a, b, counter) ==
    \/ ItemCounter_get(counter, a) > ItemCounter_get(counter, b)
    \/ /\ ItemCounter_get(counter, a) = ItemCounter_get(counter, b)
       /\ a >= b

SameElements(s, t) ==
    /\ Len(s) = Len(t)
    /\ \A x \in Range(s) \cup Range(t) :
          Cardinality({k \in 1..Len(s) : s[k] = x})
              = Cardinality({k \in 1..Len(t) : t[k] = x})

\* C16: sort_descending orders a list of items by count descending, ties
\* by item id descending, and this is the order sort_transaction with
\* SortOrder::Decreasing gives on the same counts.
C16_SortDescending ==
    pc = "sort_descending" =>
        /\ SameElements(result, arg)
        /\ \A k \in 1..(Len(result) - 1) :
              DescendingBefore(result[k], result[k + 1], item_counter)
        /\ result = sort_transaction(arg, CountsOf(item_counter), "Decreasing")

\* three different items were sorted, two of them with equal counts and one
\* with another count, and the order changed
C16_Witness ==
    /\ pc = "sort_descending"
    /\ Len(arg) = 3
    /\ Cardinality(Range(arg)) = 3
    /\ result # arg
    /\ \E a, b, c \in Range(arg) :
          /\ a # b
          /\ ItemCounter_get(item_counter, a) = ItemCounter_get(item_counter, b)
          /\ ItemCounter_get(item_counter, c) # ItemCounter_get(item_counter, a)

\* C17: items_with_count_at_least(min) returns exactly the non-null items
\* whose count is >= min; an item whose count equals min is included and the
\* null item 0 is never returned.  Stated of ItemCounter and of Counter.
C17_ItemsAtLeast ==
    pc \in {"items_with_count_at_least", "Counter::items_with_count_at_least"} =>
        Range(result)
            = {item \in 1..MaxCounterItem :
                  /\ item < Len(item_counter)
                  /\ ItemCounter_get(item_counter, item) >= arg}

\* The ItemCounter alone returns exactly the non-null items it holds whose
\* count is >= min, each once.
ItemCounterAtLeastExact ==
    pc = "items_with_count_at_least" =>
        /\ Range(result)
              = {item \in 1..MaxCounterItem :
                    /\ item < Len(item_counter)
                    /\ ItemCounter_get(item_counter, item) >= arg}
        /\ Len(result) = Cardinality(Range(result))

-----------------------------------------------------------------------------
(* Properties of the transaction source (SpecReader).                      *)

\* the ids the Itemizer holds for the fields of the consumed line k
LineIds(k) ==
    {itemizer.item_str_to_id[trim(f)] : f \in Range(split(arg[k] \o <<10>>))}

\* the ids of the fields of the consumed line k, in the order of the fields
RawIds(k) ==
    LET fields == split(arg[k] \o <<10>>)
    IN  [j \in 1..Len(fields) |-> itemizer.item_str_to_id[trim(fields[j])]]

\* C18: every transaction the reader yields is strictly ascending, without
\* duplicates, and holds the ids of the fields of its line; dedupe_sorted on
\* any sorted vector leaves one copy of each distinct element, in order.
C18_SortedTransactions ==
    /\ pc \in {"reader", "eof"} =>
          /\ Len(yielded) = Len(arg)
          /\ \A k \in 1..Len(yielded) :
                /\ StrictlyAscending(yielded[k])
                /\ Range(yielded[k]) = LineIds(k)
    /\ pc = "dedupe_sorted" =>
          /\ StrictlyAscending(result)
          /\ Range(result) = Range(arg)

\* one line had the same field twice and gave one item; another line had
\* its two fields in descending id order and gave them ascending
C18_Witness ==
    /\ pc \in {"reader", "eof"}
    /\ \E j, k \in 1..Len(yielded) :
          /\ Len(RawIds(j)) = 2 /\ RawIds(j)[1] = RawIds(j)[2]
          /\ Len(yielded[j]) = 1
          /\ Len(RawIds(k)) = 2 /\ RawIds(k)[1] > RawIds(k)[2]
          /\ yielded[k] = <<RawIds(k)[2], RawIds(k)[1]>>

\* C19: an empty line yields no transaction and assigns no item id, and
\* the sequence ends at end of file.
C19_EmptyLinesSkipped ==
    pc \in {"reader", "eof"} =>
        /\ Len(yielded) = Cardinality({k \in 1..Len(arg) : arg[k] # <<>>})
        /\ (\A k \in 1..Len(arg) : arg[k] = <<>>) => itemizer = NewItemizer
        /\ pc = "eof" => lines = <<>>

\* next() returns None only when no line is left, and consumes one line for
\* each transaction it returns.
ReaderEndsAtEof ==
    /\ pc = "eof" => lines = <<>> /\ result = <<>>
    /\ pc \in {"reader", "eof"} => Len(yielded) = Len(arg)

-----------------------------------------------------------------------------
(* Properties of vec_sets (SpecSets).                                      *)

\* C20: for strictly ascending a and b, union(a, b) is the strictly
\* ascending vector of exactly the elements of a or of b, an element of
\* both appearing once.
C20_Union ==
    pc = "union" =>
        /\ StrictlyAscending(result)
        /\ Range(result) = Range(arg[1]) \cup Range(arg[2])
        /\ Len(result) = Cardinality(Range(arg[1]) \cup Range(arg[2]))

\* the two vectors share an element, each has one of its own, and neither
\* lies wholly before the other
C20_Witness ==
    /\ pc = "union"
    /\ Range(arg[1]) \cap Range(arg[2]) # {}
    /\ Range(arg[1]) \ Range(arg[2]) # {}
    /\ Range(arg[2]) \ Range(arg[1]) # {}
    /\ arg[1][1] < arg[2][Len(arg[2])]
    /\ arg[2][1] < arg[1][Len(arg[1])]
    /\ Len(result) >= 3

\* C21: for strictly ascending a and b, intersection(a, b) is the strictly
\* ascending vector of exactly the elements present in both, and
\* intersection_size(a, b) is the length of that vector.
C21_Intersection ==
    pc = "intersection" =>
        /\ StrictlyAscending(result.vector)
        /\ Range(result.vector) = Range(arg[1]) \cap Range(arg[2])
        /\ result.size = Len(result.vector)
        /\ result.size = Cardinality(Range(arg[1]) \cap Range(arg[2]))

\* the vectors share two elements with an unshared element of each between
\* or around them
C21_Witness ==
    /\ pc = "intersection"
    /\ result.size = 2
    /\ Range(arg[1]) \ Range(arg[2]) # {}
    /\ Range(arg[2]) \ Range(arg[1]) # {}
    /\ \E x \in Range(arg[2]) \ Range(arg[1]) : x < result.vector[2]

-----------------------------------------------------------------------------
(* Properties of Rule (SpecRuleEq).                                        *)

\* C22: two Rules with the same (antecedent, consequent) are equal and hash
\* to the same value, whatever their confidence, lift and support.
C22_RuleEqHash ==
    (/\ pc = "rule_compared"
     /\ arg[1].antecedent = arg[2].antecedent
     /\ arg[1].consequent = arg[2].consequent)
        => result.eq /\ result.hash_a = result.hash_b

\* == alone looks at the antecedent and the consequent only.
RuleEqIgnoresStatistics ==
    pc = "rule_compared" =>
        (result.eq <=> (/\ arg[1].antecedent = arg[2].antecedent
                        /\ arg[1].consequent = arg[2].consequent))

-----------------------------------------------------------------------------
(* Properties of the ItemSet orderings (SpecItemSetOrd).                   *)

\* the first position at which the equally long a and b differ, or 0
FirstDifference(a, b) ==
    IF a = b THEN 0
    ELSE CHOOSE k \in 1..Len(a) :
            a[k] # b[k] /\ \A j \in 1..(k - 1) : a[j] = b[j]

\* by length first, then lexicographically on the items
LengthThenLex(a, b) ==
    IF Len(a) < Len(b) THEN -1
    ELSE IF Len(a) > Len(b) THEN 1
    ELSE IF a = b THEN 0
    ELSE IF a[FirstDifference(a, b)] < b[FirstDifference(a, b)] THEN -1
    ELSE 1

\* C23: two ItemSets compare first by length and then lexicographically on
\* their items under partial_cmp and under Ord::cmp, so the two orderings
\* agree on every pair.
C23_ItemSetOrder ==
    pc = "itemset_compared" =>
        /\ result.partial = LengthThenLex(arg[1].items, arg[2].items)
        /\ result.total = LengthThenLex(arg[1].items, arg[2].items)
        /\ result.partial = result.total

\* partial_cmp alone compares by length and then lexicographically.
ItemSetPartialCmpLengthFirst ==
    pc = "itemset_compared" =>
        result.partial = LengthThenLex(arg[1].items, arg[2].items)

-----------------------------------------------------------------------------
(* Properties of the parallel tasks (SpecPar).                             *)

\* what the sequential run of the top-level fp_growth call returns
SequentialItemsets ==
    fp_growth(fptree, min_count, <<>>, fptree.num_transactions)

\* the results of the tasks that have returned do not depend on the tasks
\* that ran before them, and what is collected is what the sequential run
\* returns, as a set (itemsets is compared when it has just been collected:
\* no later step changes it)
OrderIndependent ==
    /\ pc = "par_mine" =>
          \A i \in DOMAIN result :
              result[i] = FlatMapTask(fptree, min_count, <<>>,
                                      fptree.num_transactions, arg[i], <<>>)
    /\ (pc = "par_rules" /\ DOMAIN result = {}) =>
          Range(itemsets) = Range(SequentialItemsets)
    /\ pc = "done" =>
          Range(Flatten(rules))
              = Range(Flatten(generate_rules(SequentialItemsets, dataset_size,
                                             min_confidence, min_lift).rules))

\* a task step (one that is not a collect) writes none of the state the
\* tasks share: the tree (the parent table and the item index are made from
\* it), the itemset list and dataset size (the support table is made from
\* them), and the thresholds
SharedStateReadOnly ==
    (pc \in {"par_mine", "par_rules"} /\ pc' = pc) =>
        /\ fptree' = fptree
        /\ <<itemsets, dataset_size>>' = <<itemsets, dataset_size>>
        /\ <<min_count, min_confidence, min_lift>>'
              = <<min_count, min_confidence, min_lift>>
        /\ result' # result

-----------------------------------------------------------------------------
(* Properties of the fp_growth recursion (SpecGrowth).                     *)

\* the length of the longest itemset whose support count is above min_count
LongestFrequent ==
    LET frequent == {S \in SUBSET (1..MaxGrowItem) :
                        S = {} \/ SupportCount(S, dataset) > min_count}
    IN  CHOOSE n \in 0..MaxGrowItem :
            /\ \E S \in frequent : Cardinality(S) = n
            /\ \A S \in frequent : Cardinality(S) <= n

\* the path of every call is a frequent itemset of as many items as there
\* are calls above it, and the calls above it together with the distinct
\* items of its tree never exceed the items of the dataset
DepthBounded ==
    pc \in {"fp_growth", "returned"} =>
        /\ depth = Len(arg)
        /\ Cardinality(Range(arg)) = Len(arg)
        /\ depth <= LongestFrequent
        /\ depth >= 1 => SupportCount(Range(arg), dataset) > min_count
        /\ depth + Cardinality(IndexedItems(fptree))
              <= Cardinality(DOMAIN item_count)

\* a recursive call gets a tree with strictly fewer distinct items
FewerItems ==
    depth' = depth + 1 =>
        /\ IndexedItems(fptree') \subseteq IndexedItems(fptree)
        /\ Cardinality(IndexedItems(fptree')) < Cardinality(IndexedItems(fptree))

\* C25: fp_growth terminates on every tree of deduplicated transactions:
\* each recursive call receives a conditional tree with strictly fewer
\* distinct items than its parent tree (a measure that cannot decrease
\* for ever), and the recursion depth is bounded by the length of the
\* longest frequent itemset.
C25_Terminates == []DepthBounded /\ [][FewerItems]_vars

\* under SpecGrowthFair every chain of nested calls ends in a call that
\* returns without a further call
GrowthEnds == <>(pc = "returned")

\* a chain of three nested calls has ended on a dataset of two different
\* transactions
C25_Witness ==
    /\ pc = "returned"
    /\ depth = 3
    /\ Len(dataset) = 2 /\ dataset[1] # dataset[2]

-----------------------------------------------------------------------------
(* Properties of the level loop of generate_rules_for_itemset (SpecRules). *)

\* the step is the seed loop, one iteration of the while loop, or its end
IsSeedStep == pc = "seed" /\ pc' \in {"level", "panic"}
IsLevelStep == pc = "level" /\ pc' \in {"level", "panic"}
IsLoopExit == pc = "level" /\ pc' = "seed"

\* the consequents tested by the step, in the order tested
NewlyTested ==
    IF pc = "seed" THEN tested' ELSE SubSeq(tested', Len(tested) + 1, Len(tested'))

\* between two iterations all candidates have one common size of at least
\* one and less than |I|, and so has every consequent tested so far
LevelSizes ==
    pc = "level" =>
        /\ \A n \in 1..Len(candidates) :
              /\ Len(candidates[n]) = Len(candidates[1])
              /\ Len(candidates[n]) >= 1
              /\ Len(candidates[n]) < Len(CurrentItemset)
        /\ \A n \in 1..Len(tested) :
              /\ Len(tested[n]) >= 1
              /\ Len(tested[n]) < Len(CurrentItemset)
              /\ Range(tested[n]) \subseteq Range(CurrentItemset)

\* an iteration raises the consequent size by exactly one; the loop is left
\* exactly when the list is empty or |C| + 1 = |I|
LevelGrowth ==
    /\ IsLevelStep =>
          /\ candidates # <<>>
          /\ Len(candidates[1]) + 1 < Len(CurrentItemset)
          /\ \A n \in 1..Len(NewlyTested) :
                Len(NewlyTested[n]) = Len(candidates[1]) + 1
          /\ \A n \in 1..Len(candidates') :
                Len(candidates'[n]) = Len(candidates[1]) + 1
    /\ IsLoopExit =>
          candidates = <<>> \/ Len(candidates[1]) + 1 = Len(CurrentItemset)

\* C26: the level-wise expansion for an itemset I terminates: every
\* iteration raises the consequent size of all candidates by exactly one,
\* the loop stops when |C| + 1 = |I| or the candidate list is empty, and no
\* consequent of size |I| is ever generated.
C26_LevelsTerminate == []LevelSizes /\ [][LevelGrowth]_vars

\* two iterations have run on an itemset of four items and the loop is about
\* to stop because |C| + 1 = |I|
C26_Witness ==
    /\ pc = "level"
    /\ Len(CurrentItemset) = 4
    /\ candidates # <<>>
    /\ Len(candidates[1]) = 3

\* sup(I) / sup(I \ C) >= min_confidence, on the counts of the dataset
ConfidenceMet(C) ==
    SupportCount(Range(CurrentItemset), dataset) * min_confidence[2]
        >= min_confidence[1] * SupportCount(Range(CurrentItemset) \ C, dataset)

\* sup(I) / (sup(I \ C) * sup(C)) >= min_lift, on the counts of the dataset
LiftMet(C) ==
    SupportCount(Range(CurrentItemset), dataset) * dataset_size
            * unwrap_or_zero(min_lift)[2]
        >= unwrap_or_zero(min_lift)[1]
              * SupportCount(Range(CurrentItemset) \ C, dataset)
              * SupportCount(C, dataset)

\* the rules pushed by the step
NewlyEmitted ==
    IF pc = "seed" THEN output' ELSE SubSeq(output', Len(output) + 1, Len(output'))

\* of the consequents tested by a step, those with enough confidence are the
\* next candidates and those with enough confidence and lift are emitted
KeptIffConfident ==
    (IsSeedStep \/ IsLevelStep) =>
        /\ Range(candidates')
              = {c \in Range(NewlyTested) : ConfidenceMet(Range(c))}
        /\ {r.consequent : r \in Range(NewlyEmitted)}
              = {c \in Range(NewlyTested) :
                    ConfidenceMet(Range(c)) /\ LiftMet(Range(c))}
        /\ \A r \in Range(NewlyEmitted) :
              Range(r.antecedent) = Range(CurrentItemset) \ Range(r.consequent)

\* C27: at every level of rule generation, the seed level included, a
\* consequent is kept as a candidate for the next generation if and only if
\* its rule's confidence is >= min_confidence, whatever the lift test says;
\* a rule is emitted only when it passes both the confidence and the lift
\* test.
C27_KeptIffConfident == [][KeptIffConfident]_vars

\* an iteration of the while loop kept a consequent of two items whose rule
\* fails the lift test and was not emitted
C27_Witness ==
    /\ pc = "level"
    /\ \E c \in Range(candidates) :
          /\ Len(c) = 2
          /\ ConfidenceMet(Range(c))
          /\ ~LiftMet(Range(c))
          /\ \A r \in Range(output) : r.consequent # c

\* the candidates a and b of one length agree on all items but the last
SharePrefix(a, b) == \A n \in 1..(Len(a) - 1) : a[n] = b[n]

\* between two iterations the candidates are in strictly ascending order
\* (so none occurs twice), have one common length, and those that share the
\* prefix of a candidate follow it without a gap
CandidatesSorted ==
    pc = "level" =>
        /\ \A n \in 1..(Len(candidates) - 1) :
              LexLess(candidates[n], candidates[n + 1])
        /\ \A n \in 1..Len(candidates) :
              Len(candidates[n]) = Len(candidates[1])
        /\ \A i1, i2, i3 \in 1..Len(candidates) :
              (i1 < i2 /\ i2 < i3 /\ SharePrefix(candidates[i1], candidates[i3]))
                  => SharePrefix(candidates[i1], candidates[i2])

\* an iteration tests the union of every two candidates that share the
\* prefix, the break notwithstanding
NoCandidateSkipped ==
    IsLevelStep =>
        Range(NewlyTested)
            = {union(candidates[i1], candidates[i2]) :
                  <<i1, i2>> \in {p \in (1..Len(candidates)) \X (1..Len(candidates)) :
                                     /\ p[1] < p[2]
                                     /\ SharePrefix(candidates[p[1]],
                                                    candidates[p[2]])}}

\* C28: at the start of every iteration of the level loop the candidate list
\* is sorted ascending, free of duplicates and made of consequents of one
\* common length m, so breaking the inner loop at the first i2 > i1 whose
\* (m-1)-prefix differs from candidate i1 never skips a later candidate that
\* shares that prefix.
C28_SortedCandidates == []CandidatesSorted /\ [][NoCandidateSkipped]_vars

\* an iteration on candidates of two items took the break before the end of
\* the list and has tested the consequents of three items
C28_Witness ==
    /\ pc = "level"
    /\ Len(CurrentItemset) = 4
    /\ \E c \in Range(tested) : Len(c) = 3
    /\ \E a, b \in Range(tested) :
          Len(a) = 2 /\ Len(b) = 2 /\ LexLess(a, b) /\ ~SharePrefix(a, b)
    /\ Len(candidates) >= 2

-----------------------------------------------------------------------------
(* Properties of the node ids (SpecTree).                                  *)

RECURSIVE NodeIds(_)
\* the ids of node and of all nodes below it, one entry per node
NodeIds(node) ==
    <<node.id>> \o Flatten([i \in 1..Len(node.children) |->
                               NodeIds(node.children[i])])

\* C29: after any sequence of FPTree.insert calls all nodes of the tree have
\* pairwise distinct ids, the root has id 0 and node_count is the number of
\* nodes of the tree, so the next id handed out is unused; therefore the
\* assertion of add_parents_to_table that a child is not yet in the parent
\* table never fails.
C29_DistinctIds ==
    /\ NoRepeat(NodeIds(fptree.root))
    /\ fptree.root.id = 0
    /\ fptree.node_count = Len(NodeIds(fptree.root))
    /\ fptree.node_count \notin Range(NodeIds(fptree.root))
    /\ parent_table_keys(fptree.root, 1, [keys |-> {}, ok |-> TRUE]).ok

\* one insert has created two nodes and a later one a node on another
\* branch
C29_Witness ==
    /\ pc = "tree"
    /\ fptree.node_count >= 4
    /\ Len(fptree.root.children) >= 2
    /\ \E i \in 1..Len(fptree.root.children) :
          fptree.root.children[i].children # <<>>
    /\ parent_table_keys(fptree.root, 1, [keys |-> {}, ok |-> TRUE]).keys
          = 1..(fptree.node_count - 1)

-----------------------------------------------------------------------------
(* Properties of the vector fp_growth returns (Spec).                      *)

\* C30: the vector returned by the top-level fp_growth call contains no
\* itemset more than once (each frequent itemset is reached along exactly one
\* recursion path), and every returned ItemSet has its items in strictly
\* ascending id order.
C30_NoItemsetTwice ==
    Mined =>
        /\ NoRepeat([k \in 1..Len(itemsets) |-> Range(itemsets[k].items)])
        /\ NoRepeat(itemsets)
        /\ \A k \in 1..Len(itemsets) : StrictlyAscending(itemsets[k].items)

\* an itemset of three items is returned, and one whose recursion path ran
\* against the id order: from a less frequent item to a more frequent item
\* of lower id
C30_Witness ==
    /\ pc = "mined"
    /\ \E k \in 1..Len(itemsets) : Len(itemsets[k].items) = 3
    /\ \E k \in 1..Len(itemsets) :
          \E a, b \in Range(itemsets[k].items) :
              a < b /\ item_count[b] < item_count[a]

=============================================================================
